---- MODULE Spec2Model ----
(***************************************************************************)
(* Verification model of the HTTPS gateway: the AppManager supervisor      *)
(* (app-manager.mjs), its asynchronous configuration save, and the         *)
(* combined local certificate handling of gateway.js.                      *)
(*                                                                         *)
(* Host names are sequences of DNS labels, <<"api","local","console">>     *)
(* for api.local.console, so that the string operations of the source      *)
(* (toLowerCase, includes, split('.'), endsWith) are computed, not assumed.*)
(***************************************************************************)
EXTENDS Integers, Sequences, FiniteSets, TLC

VARIABLES
  apps,           \* AppManager.apps: key -> app config object
  appOrder,       \* insertion order of the keys of AppManager.apps (Map order)
  children,       \* AppManager.children: key -> child process (pid)
  procs,          \* child processes alive in the OS: pid -> [key, app, objLive, killed]
  manualStops,    \* AppManager.manualStops
  timers,         \* pending setTimeout restart callbacks per key
  restartCounts,  \* AppManager.restartCounts
  health,         \* AppManager.healthIntervals and healthState, the probes in flight
  logBuffers,     \* AppManager.logBuffers: key -> the captured entries kept
  captured,       \* history: every entry captured for a key, in arrival order
  configPath,     \* AppManager.configPath is set
  file,           \* apps list stored in the configuration file
  tmp,            \* content of configPath + '.tmp'
  saves,          \* promise chains of _persist still in flight
  ret,            \* the last operation and what it returned or threw
  stopRequested,  \* history: keys whose last explicit request was stop
  evHist,         \* history: last two app-start / app-exit events per key
  delayHist,      \* history: automatic restarts per key, their last two delays
  disk,           \* storage directory: the certificate and key files
  hostMap,        \* gateway.js hostMap: lowercased app.host -> app
  secureContextCache,  \* gateway.js secureContextCache: servername -> certificate
  issuing,        \* ensureCert calls waiting for the ACME client, per hostname
  writer,         \* the synchronous file writes of ensureCert in progress
  req,            \* the HTTPS request that is inside waitHealthy
  out,            \* history: the last HTTPS request and how it was answered
  wsOut,          \* history: the last WebSocket upgrade and where it went
  resp,           \* the upstream response of the last proxied request
  gw              \* the gateway process: its two listeners, its exit code

\* the state of gateway.js outside the storage directory
\* the request and the upgrade that the proxy engine handled last
reqVars == <<req, out, wsOut, resp>>
gwRest == <<issuing, writer, reqVars, gw>>
gwVars == <<hostMap, secureContextCache, gwRest>>

vars == <<apps, appOrder, children, procs, manualStops, timers, restartCounts, health, logBuffers, captured,
          configPath, file, tmp, saves, ret, stopRequested, evHist, delayHist, disk, gwVars>>

(***************************************************************************)
(* Bounds                                                                  *)
(***************************************************************************)
MaxProcs == 2
MaxTimers == 1
MaxRestarts == 1
MaxSaves == 2
MaxCalls == 2
MaxBackoff == 29
MaxProbes == 2
MaxBinds == 3
MaxPending == 2
MaxLogs == 2
MaxChunks == 4

(***************************************************************************)
(* Generic helpers for JavaScript Map objects                              *)
(***************************************************************************)
Has(f, k) == k \in DOMAIN f
Put(f, k, v) == [x \in (DOMAIN f) \cup {k} |-> IF x = k THEN v ELSE f[x]]
Del(f, k) == [x \in (DOMAIN f) \ {k} |-> f[x]]
EmptyMap == [x \in {} |-> 0]
\* a path that does not exist; an existing file is <<content>>
NoFile == <<>>
\* the storage directory without local-gateway.crt and local-gateway.key

(***************************************************************************)
(* Host names                                                              *)
(***************************************************************************)
\* String.prototype.toLowerCase on one label of the label alphabet
LowerLabel(l) ==
  CASE l = "A" -> "a"
    [] l = "API" -> "api"
    [] l = "Local-Gateway" -> "local-gateway"
    [] l = "App" -> "app"
    [] l = "LOCALHOST" -> "localhost"
    [] l = "Domain" -> "domain"
    [] l = "DOMAIN" -> "domain"
    [] l = "Path" -> "path"
    [] l = "HttpOnly" -> "httponly"
    [] OTHER -> l

\* host.toLowerCase()
Lower(h) == [i \in DOMAIN h |-> LowerLabel(h[i])]

hA == <<"a", "local">>
hAU == <<"A", "local">>
hB == <<"b", "local">>
SupHosts == {hA, hAU, hB}
SupKeys == {Lower(h) : h \in SupHosts}

\* names of the certificate specification
hLC == <<"local", "console">>
hApi == <<"api", "local", "console">>
hApiU == <<"API", "local", "console">>
hDb == <<"db", "local", "console">>
hDeep == <<"v2", "api", "local", "console">>
CertHosts == {hLC, hApi, hApiU, hDb, hDeep}
CertKeys == {Lower(h) : h \in CertHosts}

\* names that are not local-like: their certificates come from ACME
hEx == <<"example", "com">>
hShop == <<"shop", "example", "com">>
PublicHosts == {hEx, hShop}
PublicKeys == {Lower(h) : h \in PublicHosts}

\* every key the model can put in a Map
AllKeys == SupKeys \cup CertKeys \cup PublicKeys

\* the storage directory without certificates: local-gateway.crt/.key, their
\* .tmp files, and <hostname>.crt/.key of the names that are not local-like
NoCert == [crt |-> NoFile, key |-> NoFile, tmpCrt |-> NoFile, tmpKey |-> NoFile,
           hostCrt |-> [h \in PublicKeys |-> NoFile],
           hostKey |-> [h \in PublicKeys |-> NoFile]]

(***************************************************************************)
(* App configuration objects.  port = 0 stands for an absent port          *)
(* (!app.port); autoRestart = TRUE stands for every value other than false *)
(* (app.autoRestart !== false); start = TRUE for a non-empty command.      *)
(***************************************************************************)
App(h, port, start) ==
  [host |-> h, port |-> port, start |-> start, disabled |-> FALSE,
   autoRestart |-> TRUE, altNames |-> {}]

\* an app of the proxy engine: healthUrl and staticDir are TRUE when set,
\* upstream is absent (NoFile) or <<[protocol, host, port, rejectUnauthorized]>>
ReqApp(h, port, start, healthUrl, staticDir, upstream, preserveHost) ==
  [host |-> h, port |-> port, start |-> start, disabled |-> FALSE,
   autoRestart |-> FALSE, altNames |-> {}, healthUrl |-> healthUrl,
   staticDir |-> staticDir, upstream |-> upstream, preserveHost |-> preserveHost]

\* no request answered yet
NoOut == [kind |-> "none"]

\* inputs of the supervisor specification: one host, every operation
SupTemplates == {App(hA, 3000, TRUE), App(hAU, 3000, TRUE)}
SupUpdates == { <<hA, [autoRestart |-> FALSE]>>, <<hA, [disabled |-> TRUE]>> }

\* inputs of the port specification: two hosts, autoRestart off
PortUpdates == { <<hB, [port |-> 3000]>>, <<hA, [host |-> hB]>> }
ExitCodes == {0, 1}

(***************************************************************************)
(* The manager state an operation works on, and its result                 *)
(***************************************************************************)
Mgr ==
  [apps |-> apps, children |-> children, procs |-> procs,
   manualStops |-> manualStops, timers |-> timers,
   restartCounts |-> restartCounts, saves |-> saves, health |-> health,
   ev |-> <<>>, over |-> FALSE]

Returns(m, r) == [m |-> m, res |-> r, threw |-> FALSE]
Throws(m, r) == [m |-> m, res |-> r, threw |-> TRUE]
emit(m, type, key) == [m EXCEPT !.ev = Append(@, [type |-> type, host |-> key])]

\* AppManager._persist: snapshot now, write and rename later
persist(m) ==
  IF ~configPath THEN m
  ELSE IF Len(m.saves) >= MaxSaves THEN [m EXCEPT !.over = TRUE]
  ELSE [m EXCEPT !.saves = Append(@, [snap |-> m.apps, phase |-> "write"])]

\* AppManager._checkPortConflicts
checkPortConflicts(m, app) ==
  IF app.port = 0 THEN TRUE
  ELSE ~ \E k \in DOMAIN m.apps :
          LET other == m.apps[k] IN
            /\ other.host # app.host
            /\ other.port = app.port
            /\ Has(m.children, Lower(other.host))

FreePid(m) == CHOOSE p \in 1..(MaxProcs + 1) :
                 /\ p \notin DOMAIN m.procs
                 /\ \A q \in 1..(p - 1) : q \in DOMAIN m.procs

\* the fields of the app object that the exit handler's closure reads
Captured(app) == [autoRestart |-> app.autoRestart, disabled |-> app.disabled]

\* start without the check of app.disabled
startIgnoresDisabled(m, host) ==
  LET key == Lower(host) IN
  IF ~Has(m.apps, key) THEN Throws(m, "not found")
  ELSE LET app == m.apps[key] IN
    IF ~app.start THEN Throws(m, "start command missing")
    ELSE IF Has(m.children, key) THEN Returns(m, "already")
    ELSE IF ~checkPortConflicts(m, app)
      THEN Throws(emit(m, "app-log", key), "port conflict")
    ELSE IF FreePid(m) > MaxProcs THEN Returns([m EXCEPT !.over = TRUE], "started")
    ELSE
      LET pid == FreePid(m)
          m1 == [m EXCEPT
                  !.children = Put(@, key, pid),
                  !.procs = Put(@, pid, [key |-> key, app |-> Captured(app),
                                         objLive |-> TRUE, killed |-> FALSE]),
                  !.restartCounts = IF Has(@, key) THEN @ ELSE Put(@, key, 0)]
      IN Returns(emit(m1, "app-start", key), "started")

\* AppManager.start
start(m, host) ==
  LET key == Lower(host) IN
  IF ~Has(m.apps, key) THEN Throws(m, "not found")
  ELSE LET app == m.apps[key] IN
    IF ~app.start THEN Throws(m, "start command missing")
    ELSE IF app.disabled THEN Throws(m, "app disabled")
    ELSE IF Has(m.children, key) THEN Returns(m, "already")
    ELSE IF ~checkPortConflicts(m, app)
      THEN Throws(emit(m, "app-log", key), "port conflict")
    ELSE IF FreePid(m) > MaxProcs THEN Returns([m EXCEPT !.over = TRUE], "started")
    ELSE
      LET pid == FreePid(m)
          m1 == [m EXCEPT
                  !.children = Put(@, key, pid),
                  !.procs = Put(@, pid, [key |-> key, app |-> Captured(app),
                                         objLive |-> TRUE, killed |-> FALSE]),
                  !.restartCounts = IF Has(@, key) THEN @ ELSE Put(@, key, 0)]
      IN Returns(emit(m1, "app-start", key), "started")

\* AppManager.stop, called without opts.restart as every caller does
stop(m, host) ==
  LET key == Lower(host) IN
  IF ~Has(m.children, key) THEN Returns(m, "not running")
  ELSE
    LET pid == m.children[key]
        m1 == [m EXCEPT
                !.manualStops = @ \cup {key},
                !.procs = [@ EXCEPT ![pid].killed = TRUE],
                !.children = Del(@, key)]
    IN Returns(emit(m1, "app-stop", key), "stopped")

\* AppManager.restart
restart(m, host) ==
  LET key == Lower(host)
      s == stop(m, key)
      r == start(s.m, key)
  IN r

\* { ...app, ...partial }
Merge(app, partial) ==
  [f \in DOMAIN app |-> IF f \in DOMAIN partial THEN partial[f] ELSE app[f]]

\* the closures of _wireChild keep the object that apps held at start
Detach(m, key) ==
  [m EXCEPT !.procs = [p \in DOMAIN @ |->
      IF @[p].key = key THEN [@[p] EXCEPT !.objLive = FALSE] ELSE @[p]]]

\* app.disabled = v on the object that apps holds
MutateDisabled(m, key, v) ==
  [m EXCEPT !.apps = [@ EXCEPT ![key].disabled = v],
            !.procs = [p \in DOMAIN @ |->
      IF @[p].key = key /\ @[p].objLive
        THEN [@[p] EXCEPT !.app = [@ EXCEPT !.disabled = v]] ELSE @[p]]]

(***************************************************************************)
(* The periodic health probers of the manager                              *)
(***************************************************************************)
\* health.intervals: the keys of AppManager.healthIntervals
\* health.live:      per key, the setInterval timers that were not cleared
\* health.runs:      per key, the calls of run() that await their response:
\*                   cur for a timer that is live, stale for a cleared one
\* health.state:     AppManager.healthState
NoHealth == [intervals |-> {}, live |-> EmptyMap, runs |-> EmptyMap, state |-> EmptyMap]

Live(h, key) == IF Has(h.live, key) THEN h.live[key] ELSE 0
Runs(h, key) == IF Has(h.runs, key) THEN h.runs[key] ELSE [cur |-> 0, stale |-> 0]
SetRuns(h, key, r) ==
  IF r.cur = 0 /\ r.stale = 0
    THEN (IF Has(h.runs, key) THEN Del(h.runs, key) ELSE h.runs)
    ELSE Put(h.runs, key, r)
SetLive(h, key, n) ==
  IF n = 0 THEN (IF Has(h.live, key) THEN Del(h.live, key) ELSE h.live)
  ELSE Put(h.live, key, n)

\* app.healthUrl is set
hasHealthUrl(app) == "healthUrl" \in DOMAIN app /\ app.healthUrl

\* AppManager._scheduleHealth: run() at once, then setInterval(run, intervalMs)
scheduleHealth(m, key) ==
  LET h == m.health
      r == Runs(h, key)
  IN IF ~Has(m.apps, key) \/ ~hasHealthUrl(m.apps[key]) THEN m
     ELSE IF r.cur + r.stale >= MaxProbes THEN [m EXCEPT !.over = TRUE]
     ELSE [m EXCEPT !.health =
             [h EXCEPT !.runs = SetRuns(h, key, [r EXCEPT !.cur = @ + 1]),
                       !.live = SetLive(h, key, Live(h, key) + 1),
                       !.intervals = @ \cup {key}]]

\* AppManager._clearHealth: clearInterval of the stored id, deletion of the
\* id and of the health state; the calls of run() in flight go on
clearHealth(m, key) ==
  LET h == m.health
      r == Runs(h, key)
      had == key \in h.intervals
  IN [m EXCEPT !.health =
        [h EXCEPT !.runs = IF had THEN SetRuns(h, key, [cur |-> 0, stale |-> r.stale + r.cur])
                                  ELSE @,
                  !.live = IF had THEN SetLive(h, key, Live(h, key) - 1) ELSE @,
                  !.intervals = @ \ {key},
                  !.state = IF Has(@, key) THEN Del(@, key) ELSE @]]

\* AppManager.updateApp
updateApp(m, host, partial) ==
  LET key == Lower(host) IN
  IF ~Has(m.apps, key) THEN Throws(m, "not found")
  ELSE
    LET merged == Merge(m.apps[key], partial)
        m1 == Detach([m EXCEPT !.apps = Put(@, key, merged)], key)
        m2 == emit(persist(m1), "app-updated", key)
    IN Returns(scheduleHealth(clearHealth(m2, key), key), "updated")

\* AppManager.addApp
addApp(m, app) ==
  LET key == Lower(app.host) IN
  IF app.host = <<>> THEN Throws(m, "host required")
  ELSE IF Has(m.apps, key) THEN Throws(m, "host already exists")
  ELSE
    LET m1 == emit(persist([m EXCEPT !.apps = Put(@, key, app)]), "app-added", key)
    IN IF app.start
         THEN LET r == start(m1, key) IN
              IF r.threw THEN r ELSE Returns(scheduleHealth(r.m, key), "added")
         ELSE Returns(scheduleHealth(m1, key), "added")

\* removeApp that also forgets the restart count of the host
removeAppForgetsCount(m, host) ==
  LET key == Lower(host) IN
  IF ~Has(m.apps, key) THEN Throws(m, "not found")
  ELSE
    LET s == stop(m, key)
        m1 == Detach([s.m EXCEPT !.apps = Del(@, key),
                                 !.restartCounts = Del(@, key)], key)
    IN Returns(emit(persist(clearHealth(m1, key)), "app-removed", key), "removed")

\* AppManager.removeApp
removeApp(m, host) ==
  LET key == Lower(host) IN
  IF ~Has(m.apps, key) THEN Throws(m, "not found")
  ELSE
    LET s == stop(m, key)
        m1 == Detach([s.m EXCEPT !.apps = Del(@, key)], key)
    IN Returns(emit(persist(clearHealth(m1, key)), "app-removed", key), "removed")

\* AppManager.enable
enable(m, host) ==
  LET key == Lower(host) IN
  IF ~Has(m.apps, key) THEN Throws(m, "not found")
  ELSE IF ~m.apps[key].disabled THEN Returns(m, "already")
  ELSE
    LET hadStart == m.apps[key].start
        u == updateApp(MutateDisabled(m, key, FALSE), key, [disabled |-> FALSE])
    IN IF hadStart
         THEN LET r == start(u.m, key) IN
              IF r.threw THEN r ELSE Returns(r.m, "enabled")
         ELSE Returns(u.m, "enabled")

\* AppManager.disable
disable(m, host) ==
  LET key == Lower(host) IN
  IF ~Has(m.apps, key) THEN Throws(m, "not found")
  ELSE IF m.apps[key].disabled THEN Returns(m, "already")
  ELSE
    LET u == updateApp(MutateDisabled(m, key, TRUE), key, [disabled |-> TRUE])
        s == stop(u.m, key)
    IN Returns(s.m, "disabled")

\* the 'exit' handler installed by AppManager._wireChild
shouldRestart(wasManual, app, code) ==
  ~wasManual /\ app.autoRestart # FALSE /\ ~app.disabled /\ code # 0

\* the delay computed from the count before its increment
restartDelayBefore(restarts) ==
  IF 2000 + (restarts - 1) * 1000 < 30000 THEN 2000 + (restarts - 1) * 1000 ELSE 30000

\* const delay = Math.min(2000 + (restarts * 1000), 30000)
restartDelay(restarts) ==
  IF 2000 + restarts * 1000 < 30000 THEN 2000 + restarts * 1000 ELSE 30000

\* the handler, followed while the host has at most maxRestarts restarts
exitHandler(m, pid, code, maxRestarts) ==
  LET key == m.procs[pid].key
      app == m.procs[pid].app
      wasManual == key \in m.manualStops
      m1 == emit([m EXCEPT !.children = Del(@, key),
                           !.manualStops = @ \ {key},
                           !.procs = Del(@, pid)], "app-exit", key)
  IN IF shouldRestart(wasManual, app, code)
       THEN
         LET restarts == (IF Has(m1.restartCounts, key) THEN m1.restartCounts[key] ELSE 0) + 1
             delay == restartDelay(restarts)
             m2 == [m1 EXCEPT !.restartCounts = Put(@, key, restarts),
                              !.timers = [@ EXCEPT ![key] = @ + 1],
                              !.over = (restarts > maxRestarts) \/ (m1.timers[key] >= MaxTimers),
                              !.ev = Append(@, [type |-> "app-log", host |-> key,
                                                attempt |-> restarts, delay |-> delay])]
         IN Returns(m2, "restart scheduled")
       ELSE Returns(m1, "no restart")

onExit(m, pid, code) == exitHandler(m, pid, code, MaxRestarts)

\* the setTimeout callback of the exit handler
onRestartTimer(m, key) ==
  LET m1 == [m EXCEPT !.timers = [@ EXCEPT ![key] = @ - 1]] IN
  IF Has(m1.apps, key) THEN start(m1, key) ELSE Returns(m1, "skipped")

(***************************************************************************)
(* History of the emitted events                                           *)
(***************************************************************************)
Last2(s) == IF Len(s) <= 2 THEN s ELSE SubSeq(s, Len(s) - 1, Len(s))

Lifecycle(ev, key) ==
  SelectSeq(ev, LAMBDA e : e.host = key /\ e.type \in {"app-start", "app-exit"})

Types(s) == [i \in DOMAIN s |-> s[i].type]

NextEvHist(ev) ==
  [k \in AllKeys |-> Last2(evHist[k] \o Types(Lifecycle(ev, k)))]

\* the '[restart] attempt N in Dms' lines logged for a key
RestartLogs(ev, key) ==
  SelectSeq(ev, LAMBDA e : e.host = key /\ e.type = "app-log" /\ "delay" \in DOMAIN e)

NextDelayHist(ev) ==
  [k \in AllKeys |->
     LET logs == RestartLogs(ev, k) IN
     IF logs = <<>> THEN delayHist[k]
     ELSE [n |-> delayHist[k].n + Len(logs),
           last |-> Last2(delayHist[k].last \o [i \in DOMAIN logs |-> logs[i].delay])]]

Result(op, host, r, code, manual) ==
  [op |-> op, host |-> Lower(host), res |-> r.res, threw |-> r.threw,
   code |-> code, manual |-> manual, cert |-> NoFile, prev |-> NoFile,
   key |-> NoFile, via |-> ""]

\* Map order: a deleted key leaves the order, a new key goes to its end
NextOrder(order, appMap) ==
  LET kept == SelectSeq(order, LAMBDA k : k \in DOMAIN appMap)
      new == DOMAIN appMap \ {order[i] : i \in DOMAIN order}
  IN IF new = {} THEN kept ELSE Append(kept, CHOOSE k \in new : TRUE)

\* a handler runs while the process has not exited
Commit(r) ==
  /\ gw.exit = NoFile
  /\ ~r.m.over
  /\ apps' = r.m.apps
  /\ appOrder' = NextOrder(appOrder, r.m.apps)
  /\ children' = r.m.children
  /\ procs' = r.m.procs
  /\ manualStops' = r.m.manualStops
  /\ timers' = r.m.timers
  /\ restartCounts' = r.m.restartCounts
  /\ health' = r.m.health
  /\ UNCHANGED <<logBuffers, captured>>
  /\ saves' = r.m.saves
  /\ evHist' = NextEvHist(r.m.ev)
  /\ delayHist' = NextDelayHist(r.m.ev)

(***************************************************************************)
(* Actions of the supervisor                                               *)
(***************************************************************************)
AddApp(app) ==
  LET r == addApp(Mgr, app) IN
  /\ Commit(r)
  /\ ret' = Result("addApp", app.host, r, 0, FALSE)
  /\ stopRequested' = IF ~Has(apps, Lower(app.host)) /\ app.start
                        THEN stopRequested \ {Lower(app.host)} ELSE stopRequested
  /\ UNCHANGED <<configPath, file, tmp, disk, gwVars>>

UpdateApp(host, partial) ==
  LET r == updateApp(Mgr, host, partial) IN
  /\ Commit(r)
  /\ ret' = Result("updateApp", host, r, 0, FALSE)
  /\ UNCHANGED <<configPath, file, tmp, disk, gwVars, stopRequested>>

RemoveApp(host) ==
  LET r == removeApp(Mgr, host) IN
  /\ Commit(r)
  /\ ret' = Result("removeApp", host, r, 0, FALSE)
  /\ stopRequested' = IF r.threw THEN stopRequested ELSE stopRequested \cup {Lower(host)}
  /\ UNCHANGED <<configPath, file, tmp, disk, gwVars>>

Start(host) ==
  LET r == start(Mgr, host) IN
  /\ Commit(r)
  /\ ret' = Result("start", host, r, 0, FALSE)
  /\ stopRequested' = stopRequested \ {Lower(host)}
  /\ UNCHANGED <<configPath, file, tmp, disk, gwVars>>

Stop(host) ==
  LET r == stop(Mgr, host) IN
  /\ Commit(r)
  /\ ret' = Result("stop", host, r, 0, FALSE)
  /\ stopRequested' = stopRequested \cup {Lower(host)}
  /\ UNCHANGED <<configPath, file, tmp, disk, gwVars>>

Restart(host) ==
  LET r == restart(Mgr, host) IN
  /\ Commit(r)
  /\ ret' = Result("restart", host, r, 0, FALSE)
  /\ stopRequested' = stopRequested \ {Lower(host)}
  /\ UNCHANGED <<configPath, file, tmp, disk, gwVars>>

Enable(host) ==
  LET r == enable(Mgr, host) IN
  /\ Commit(r)
  /\ ret' = Result("enable", host, r, 0, FALSE)
  /\ stopRequested' = IF r.res = "enabled" \/ (r.threw /\ r.res # "not found")
                        THEN stopRequested \ {Lower(host)} ELSE stopRequested
  /\ UNCHANGED <<configPath, file, tmp, disk, gwVars>>

Disable(host) ==
  LET r == disable(Mgr, host) IN
  /\ Commit(r)
  /\ ret' = Result("disable", host, r, 0, FALSE)
  /\ stopRequested' = IF r.res = "disabled"
                        THEN stopRequested \cup {Lower(host)} ELSE stopRequested
  /\ UNCHANGED <<configPath, file, tmp, disk, gwVars>>

ChildExit(pid, code) ==
  /\ pid \in DOMAIN procs
  /\ LET r == onExit(Mgr, pid, code) IN
     /\ Commit(r)
     /\ ret' = Result("exit", procs[pid].key, r, code, procs[pid].key \in manualStops)
  /\ UNCHANGED <<configPath, file, tmp, disk, gwVars, stopRequested>>

RestartTimer(key) ==
  /\ timers[key] > 0
  /\ LET r == onRestartTimer(Mgr, key) IN
     /\ Commit(r)
     /\ ret' = Result("restartTimer", key, r, 0, FALSE)
  /\ UNCHANGED <<configPath, file, tmp, disk, gwVars, stopRequested>>

(***************************************************************************)
(* Specification of the supervisor: an AppManager without configPath,      *)
(* after loadConfig of one of the configurations below.                    *)
(***************************************************************************)
\* AppManager.loadConfig
RECURSIVE loadApps(_, _)
loadApps(list, map) ==
  IF list = <<>> THEN map
  ELSE loadApps(Tail(list), Put(map, Lower(Head(list).host), Head(list)))

loadConfig(obj) == loadApps(obj.apps, EmptyMap)

\* the Map order loadConfig leaves: each key at its first insertion
RECURSIVE loadOrder(_, _)
loadOrder(list, order) ==
  IF list = <<>> THEN order
  ELSE LET key == Lower(Head(list).host) IN
       loadOrder(Tail(list),
                 IF key \in {order[i] : i \in DOMAIN order} THEN order
                 ELSE Append(order, key))

\* gateway.js rebuildHostMap: hostMap.set(app.host.toLowerCase(), app) for
\* the apps in Map order
RECURSIVE rebuildHostMap(_, _, _)
rebuildHostMap(order, appMap, hm) ==
  IF order = <<>> THEN hm
  ELSE LET app == appMap[Head(order)] IN
       rebuildHostMap(Tail(order), appMap, Put(hm, Lower(app.host), app))

SupConfigs == { [apps |-> <<>>], [apps |-> <<App(hA, 3000, TRUE)>>] }

\* httpSrv and httpsSrv
Servers == {"http", "https"}

\* startServers: both servers listen, the process runs; conns are the open
\* TLS connections, each with the server name of its handshake and the
\* context that SNICallback gave it; busy are the ports that another
\* process holds, errs the 'error' events not yet handled, retry the
\* pending timers of startServers, binds the bind attempts made
Listening == [http |-> "listening", https |-> "listening", exit |-> NoFile, steps |-> <<>>,
              conns |-> {}, busy |-> {}, errs |-> [s \in Servers |-> 0], retry |-> 0,
              binds |-> [s \in Servers |-> 1]]

InitRet == [op |-> "init", host |-> <<>>, res |-> "", threw |-> FALSE,
            code |-> 0, manual |-> FALSE, cert |-> NoFile, prev |-> NoFile,
            key |-> NoFile, via |-> ""]

\* the state after construction, for the app map and the host router that
\* loadConfig and rebuildHostMap leave and the servers that the first call
\* of startServers leaves
InitStarted(appMap, order, hm, path, g) ==
  /\ apps = appMap
  /\ appOrder = order
  /\ hostMap = hm
  /\ secureContextCache = EmptyMap
  /\ issuing = [h \in PublicKeys |-> <<>>]
  /\ writer = NoFile
  /\ req = NoFile
  /\ out = NoOut
  /\ wsOut = NoOut
  /\ resp = NoOut
  /\ gw = g
  /\ children = EmptyMap
  /\ procs = EmptyMap
  /\ manualStops = {}
  /\ timers = [k \in AllKeys |-> 0]
  /\ restartCounts = EmptyMap
  /\ health = NoHealth
  /\ logBuffers = EmptyMap
  /\ captured = [k \in AllKeys |-> <<>>]
  /\ configPath = path
  /\ file = appMap
  /\ tmp = NoFile
  /\ saves = <<>>
  /\ ret = InitRet
  /\ stopRequested = {}
  /\ evHist = [k \in AllKeys |-> <<>>]
  /\ delayHist = [k \in AllKeys |-> [n |-> 0, last |-> <<>>]]

InitLoaded(appMap, order, hm, path) == InitStarted(appMap, order, hm, path, Listening)

InitManager(obj, path) ==
  InitLoaded(loadConfig(obj), loadOrder(obj.apps, <<>>),
             rebuildHostMap(loadOrder(obj.apps, <<>>), loadConfig(obj), EmptyMap), path)

Init ==
  /\ \E obj \in SupConfigs : InitManager(obj, FALSE)
  /\ disk = NoCert

Next ==
  \/ \E app \in SupTemplates : AddApp(app)
  \/ \E u \in SupUpdates : UpdateApp(u[1], u[2])
  \/ RemoveApp(hA)
  \/ Start(hA)
  \/ Stop(hA)
  \/ Restart(hA)
  \/ Enable(hA)
  \/ Disable(hA)
  \/ \E pid \in 1..MaxProcs, code \in ExitCodes : ChildExit(pid, code)
  \/ RestartTimer(hA)

Spec == Init /\ [][Next]_vars

(***************************************************************************)
(* Specification of the port checks: two configured apps whose autoRestart *)
(* is false, so that no restart timer is ever armed.                       *)
(***************************************************************************)
NoRestart(app) == [app EXCEPT !.autoRestart = FALSE]

PortConfigs ==
  { [apps |-> <<NoRestart(App(hA, 3000, TRUE)), NoRestart(App(hB, 3001, TRUE))>>] }

InitPorts ==
  /\ \E obj \in PortConfigs : InitManager(obj, FALSE)
  /\ disk = NoCert

NextPorts ==
  \/ \E u \in PortUpdates : UpdateApp(u[1], u[2])
  \/ \E host \in SupKeys : Start(host)
  \/ \E host \in SupKeys : Stop(host)
  \/ \E host \in SupKeys : Restart(host)
  \/ \E pid \in 1..MaxProcs, code \in ExitCodes : ChildExit(pid, code)

SpecPorts == InitPorts /\ [][NextPorts]_vars

(***************************************************************************)
(* The asynchronous save started by _persist:                              *)
(*   fs.promises.writeFile(tmp, snapshot).then(rename(tmp, configPath))    *)
(* Every chain writes the same tmp path; the thread pool completes the     *)
(* writes and renames of different chains in any order.                    *)
(***************************************************************************)
RemoveAt(s, i) == SubSeq(s, 1, i - 1) \o SubSeq(s, i + 1, Len(s))

\* fs.promises.writeFile(tmp, ...) of chain i completes
SaveWrite(i) ==
  /\ i \in DOMAIN saves
  /\ saves[i].phase = "write"
  /\ tmp' = <<saves[i].snap>>
  /\ saves' = [saves EXCEPT ![i].phase = "rename"]
  /\ ret' = [InitRet EXCEPT !.op = "writeFile"]
  /\ UNCHANGED <<apps, appOrder, children, procs, manualStops, timers, restartCounts, health, logBuffers, captured,
                 configPath, file, stopRequested, evHist, delayHist, disk, gwVars>>

\* fs.promises.rename(tmp, configPath) of chain i completes, or fails with
\* ENOENT when another chain has already moved the file (.catch logs it)
SaveRename(i) ==
  /\ i \in DOMAIN saves
  /\ saves[i].phase = "rename"
  /\ saves' = RemoveAt(saves, i)
  /\ IF tmp # NoFile
       THEN /\ file' = tmp[1]
            /\ tmp' = NoFile
            /\ ret' = [InitRet EXCEPT !.op = "rename", !.res = "config-saved"]
       ELSE /\ UNCHANGED <<file, tmp>>
            /\ ret' = [InitRet EXCEPT !.op = "rename", !.res = "Config save failed",
                                      !.threw = TRUE]
  /\ UNCHANGED <<apps, appOrder, children, procs, manualStops, timers, restartCounts, health, logBuffers, captured,
                 configPath, stopRequested, evHist, delayHist, disk, gwVars>>

(***************************************************************************)
(* Specification of the configuration mutations: a manager created by      *)
(* createAppManagerFromFile (configPath set), apps without start command.  *)
(***************************************************************************)
CfgTemplates == {App(hA, 3000, FALSE), App(hAU, 3000, FALSE), App(hB, 3001, FALSE)}
CfgUpdates == { <<hA, [host |-> hB]>> }
CfgConfigs == { [apps |-> <<>>],
                [apps |-> <<App(hAU, 3000, FALSE), App(hA, 3000, FALSE)>>] }

InitConfig ==
  /\ \E obj \in CfgConfigs : InitManager(obj, TRUE)
  /\ disk = NoCert

NextConfig ==
  \/ \E app \in CfgTemplates : AddApp(app)
  \/ \E u \in CfgUpdates : UpdateApp(u[1], u[2])
  \/ \E host \in SupKeys : RemoveApp(host)
  \/ Enable(hA)
  \/ Disable(hA)
  \/ \E i \in 1..MaxSaves : SaveWrite(i)
  \/ \E i \in 1..MaxSaves : SaveRename(i)

SpecConfig == InitConfig /\ [][NextConfig]_vars

(***************************************************************************)
(* Specification of the saves: the same manager, with an updateApp that    *)
(* changes an ordinary field, so that every mutation is a legitimate one.  *)
(***************************************************************************)
SaveUpdates == { <<hA, [port |-> 3001]>> }

NextSave ==
  \/ \E app \in CfgTemplates : AddApp(app)
  \/ \E u \in SaveUpdates : UpdateApp(u[1], u[2])
  \/ \E host \in SupKeys : RemoveApp(host)
  \/ Enable(hA)
  \/ Disable(hA)
  \/ \E i \in 1..MaxSaves : SaveWrite(i)
  \/ \E i \in 1..MaxSaves : SaveRename(i)

SpecSave == InitConfig /\ [][NextSave]_vars

(***************************************************************************)
(* gateway.js: the combined certificate of the local-like host names.      *)
(* A certificate is [cn, sans]; its key file holds the same record, which  *)
(* stands for the private key that belongs to that certificate.            *)
(***************************************************************************)
\* labels of the alphabet by the substrings the source searches for
StartsWithLocal == {"local", "localhost"}
EndsWithLocal == {"local"}
ContainsLocalhost == {"localhost"}
StartsWithConsole == {"console"}

\* s.includes('.local') || s.includes('local.') || s.includes('localhost')
\*   || s.includes('.console'), on a lowercased name
includesLocal(s) ==
  \/ \E i \in 2..Len(s) : s[i] \in StartsWithLocal
  \/ \E i \in 1..(Len(s) - 1) : s[i] \in EndsWithLocal
  \/ \E i \in 1..Len(s) : s[i] \in ContainsLocalhost
  \/ \E i \in 2..Len(s) : s[i] \in StartsWithConsole

\* isLocalDomainName
isLocalDomainName(d) == includesLocal(Lower(d))

\* host.endsWith('.' + base)
endsWithDot(host, base) ==
  /\ Len(host) > Len(base)
  /\ SubSeq(host, Len(host) - Len(base) + 1, Len(host)) = base

\* sanMatchesHost of ensureCert, on the lowercased SANs of the record
sanMatchesHost(list, host) ==
  \E s \in list :
    LET ss == Lower(s) IN
    \/ ss = host
    \/ /\ Len(ss) >= 2 /\ ss[1] = "*"
       /\ host # Tail(ss)
       /\ endsWithDot(host, Tail(ss))

\* the name 'local-gateway' (one label)
combinedName == <<"local-gateway">>

\* certCN of ensureCert: the CN read from the Subject of the record, <<>> when
\* the Subject has none
certCN(c) == c.cn

\* localNames of ensureCert: the requested name and the local-like hosts
\* and altNames of the configured apps, lowercased
localNames(hostname, appMap) ==
  {Lower(hostname)}
    \cup {Lower(appMap[k].host) : k \in {x \in DOMAIN appMap : isLocalDomainName(appMap[x].host)}}
    \cup UNION {{Lower(alt) : alt \in {y \in appMap[k].altNames : isLocalDomainName(y)}}
                 : k \in DOMAIN appMap}

\* parts.slice(-2).join('.')
lastTwo(n) == SubSeq(n, Len(n) - 1, Len(n))

\* wildcardSet of ensureCert
wildcardSet(names) ==
  {<<"*">> \o lastTwo(n) :
     n \in {x \in names : Len(x) >= 2 /\ ~(\E i \in 1..Len(x) : x[i] \in ContainsLocalhost)}}

\* the SAN list ensureCert puts in a new combined certificate
sanList(hostname, appMap) ==
  LET names == localNames(hostname, appMap) IN names \cup wildcardSet(names)

crtExists(d) == d.crt # NoFile /\ d.key # NoFile

\* new X509Certificate(pem) and tls.createSecureContext read the file c
\* without an error
parses(c) == ~("garbled" \in DOMAIN c /\ c.garbled)

\* ensureCert without the comparison of the CN
ensureCertAnyCn(hostname, d, appMap) ==
  IF crtExists(d) /\ parses(d.crt[1])
       /\ sanMatchesHost(d.crt[1].sans, Lower(hostname))
    THEN [disk |-> d, cert |-> d.crt[1], res |-> "reused"]
    ELSE LET c == [cn |-> combinedName, sans |-> sanList(hostname, appMap)]
         IN [disk |-> [d EXCEPT !.crt = <<c>>, !.key = <<c>>], cert |-> c,
             res |-> "generated"]

\* ensureCert for a local-like hostname: reuse the record on disk when one
\* of its SANs matches the hostname and its CN is local-gateway, otherwise
\* generate, write both files and return the new pair
ensureCert(hostname, d, appMap) ==
  IF crtExists(d)
       /\ parses(d.crt[1])
       /\ sanMatchesHost(d.crt[1].sans, Lower(hostname))
       /\ certCN(d.crt[1]) # <<>>
       /\ Lower(certCN(d.crt[1])) = Lower(combinedName)
    THEN [disk |-> d, cert |-> d.crt[1], res |-> "reused"]
    ELSE LET c == [cn |-> combinedName, sans |-> sanList(hostname, appMap)]
         IN [disk |-> [d EXCEPT !.crt = <<c>>, !.key = <<c>>], cert |-> c,
             res |-> "generated"]

\* the 'app-added' and 'app-start' listeners of gateway.js, run for the
\* events of one manager operation in the order of their emission
RECURSIVE certListeners(_, _, _)
certListeners(ev, d, appMap) ==
  IF ev = <<>> THEN d
  ELSE LET e == Head(ev)
           d1 == IF e.type \in {"app-added", "app-start"} /\ isLocalDomainName(e.host)
                   THEN ensureCert(e.host, d, appMap).disk ELSE d
       IN certListeners(Tail(ev), d1, appMap)

\* the rebuildHostMap listeners of 'app-added', 'app-removed' and
\* 'app-updated', run for the events of one manager operation
hostMapListeners(ev, hm, order, appMap) ==
  IF \E i \in DOMAIN ev : ev[i].type \in {"app-added", "app-removed", "app-updated"}
    THEN rebuildHostMap(order, appMap, EmptyMap)
    ELSE hm

\* the listeners of gateway.js on the events of the manager operation r
GwListeners(r) ==
  /\ disk' = certListeners(r.m.ev, disk, r.m.apps)
  /\ hostMap' = hostMapListeners(r.m.ev, hostMap, NextOrder(appOrder, r.m.apps), r.m.apps)

\* manager.addApp called on the gateway
GwAddApp(app) ==
  LET r == addApp(Mgr, app) IN
  /\ Commit(r)
  /\ ret' = Result("addApp", app.host, r, 0, FALSE)
  /\ GwListeners(r)
  /\ UNCHANGED <<configPath, file, tmp, stopRequested, secureContextCache, gwRest>>

\* manager.removeApp called on the gateway
GwRemoveApp(host) ==
  LET r == removeApp(Mgr, host) IN
  /\ Commit(r)
  /\ ret' = Result("removeApp", host, r, 0, FALSE)
  /\ GwListeners(r)
  /\ UNCHANGED <<configPath, file, tmp, stopRequested, secureContextCache, gwRest>>

\* ensureCert(servername) called by getSecureContext for a configured,
\* local-like server name
EnsureCert(servername) ==
  /\ Has(apps, servername)
  /\ isLocalDomainName(servername)
  /\ LET r == ensureCert(servername, disk, apps) IN
     /\ disk' = r.disk
     /\ ret' = [InitRet EXCEPT !.op = "ensureCert", !.host = servername,
                               !.res = r.res, !.cert = <<r.cert>>,
                               !.prev = disk.crt]
  /\ UNCHANGED <<apps, appOrder, children, procs, manualStops, timers, restartCounts, health, logBuffers, captured,
                 configPath, file, tmp, saves, stopRequested, evHist, delayHist, gwVars>>

\* const MAX_CERT_CACHE_SIZE = 100
MAX_CERT_CACHE_SIZE == 100

\* the entries of the cache numbered 1, 2, ... in the order of their expires
byExpires(c) ==
  [k \in DOMAIN c |->
     [c[k] EXCEPT !.rank = Cardinality({j \in DOMAIN c : c[j].rank <= c[k].rank})]]

\* secureContextCache.set(servername, { context, expires: Date.now() + CERT_CACHE_TTL }):
\* the entry written last has the latest expires
cacheSet(c, servername, context) ==
  LET others == byExpires(IF Has(c, servername) THEN Del(c, servername) ELSE c)
  IN Put(others, servername,
         [context |-> context, expired |-> FALSE,
          rank |-> Cardinality(DOMAIN others) + 1])

\* the callback of the hourly setInterval: expired entries are deleted, and
\* of more than MAX_CERT_CACHE_SIZE entries the ones that expire first
sweep(c) ==
  LET fresh == byExpires([k \in {j \in DOMAIN c : ~c[j].expired} |-> c[k]])
      n == Cardinality(DOMAIN fresh)
  IN IF n > MAX_CERT_CACHE_SIZE
       THEN byExpires([k \in {j \in DOMAIN fresh : fresh[j].rank > n - MAX_CERT_CACHE_SIZE}
                        |-> fresh[k]])
       ELSE fresh

Sweep ==
  /\ secureContextCache' = sweep(secureContextCache)
  /\ ret' = [InitRet EXCEPT !.op = "sweep"]
  /\ UNCHANGED <<apps, appOrder, children, procs, manualStops, timers, restartCounts, health, logBuffers, captured,
                 configPath, file, tmp, saves, stopRequested, evHist, delayHist, hostMap, disk,
                 gwRest>>

\* defaultCreds = selfSigned("localhost"): CN and SAN localhost
defaultCreds == [cn |-> <<"localhost">>, sans |-> {<<"localhost">>}]

\* getSecureContext(servername), for a server name whose certificate is the
\* combined one: unknown names get the default context, a cache entry that
\* has not expired is returned, otherwise ensureCert runs and its result is
\* cached
GetSecureContext(name) ==
  LET servername == Lower(name) IN
  /\ isLocalDomainName(servername)
  /\ IF ~Has(hostMap, servername)
       THEN /\ ret' = [InitRet EXCEPT !.op = "getSecureContext", !.host = servername,
                                      !.res = "default", !.cert = <<defaultCreds>>]
            /\ UNCHANGED <<disk, secureContextCache>>
       ELSE IF Has(secureContextCache, servername)
                 /\ ~secureContextCache[servername].expired
       THEN /\ ret' = [InitRet EXCEPT !.op = "getSecureContext", !.host = servername,
                                      !.res = "hit",
                                      !.cert = <<secureContextCache[servername].context>>]
            /\ UNCHANGED <<disk, secureContextCache>>
       ELSE LET r == ensureCert(servername, disk, apps) IN
            /\ disk' = r.disk
            /\ secureContextCache' =
                 cacheSet(secureContextCache, servername, r.cert)
            /\ ret' = [InitRet EXCEPT !.op = "getSecureContext", !.host = servername,
                                      !.res = "miss", !.cert = <<r.cert>>,
                                      !.prev = disk.crt]
  /\ UNCHANGED <<apps, appOrder, children, procs, manualStops, timers, restartCounts, health, logBuffers, captured,
                 configPath, file, tmp, saves, stopRequested, evHist, delayHist, hostMap,
                 gwRest>>

\* the clock passes cached.expires of an entry (CERT_CACHE_TTL after its
\* insertion)
CacheTtl(servername) ==
  /\ Has(secureContextCache, servername)
  /\ ~secureContextCache[servername].expired
  /\ secureContextCache' = [secureContextCache EXCEPT ![servername].expired = TRUE]
  /\ ret' = [InitRet EXCEPT !.op = "clock"]
  /\ UNCHANGED <<apps, appOrder, children, procs, manualStops, timers, restartCounts, health, logBuffers, captured,
                 configPath, file, tmp, saves, stopRequested, evHist, delayHist, hostMap, disk,
                 gwRest>>

(***************************************************************************)
(* Specification of the certificate handling: externally managed apps      *)
(* (no start command) with local-like names, an empty storage directory.   *)
(***************************************************************************)
CertApp(h, alts) == [App(h, 0, FALSE) EXCEPT !.altNames = alts]

CertTemplates == { CertApp(hLC, {}), CertApp(hApiU, {}), CertApp(hDb, {hApi}) }
CertConfigs == { [apps |-> <<>>], [apps |-> <<CertApp(hLC, {})>>] }

InitCert ==
  /\ \E obj \in CertConfigs : InitManager(obj, FALSE)
  /\ disk = NoCert

NextCert ==
  \/ \E app \in CertTemplates : GwAddApp(app)
  \/ \E host \in CertKeys : GwRemoveApp(host)
  \/ \E servername \in CertKeys : EnsureCert(servername)

SpecCert == InitCert /\ [][NextCert]_vars

(***************************************************************************)
(* Specification of the certificate store: the storage directory may hold  *)
(* a combined record left by an earlier installation, and TLS handshakes   *)
(* go through getSecureContext and its cache.                              *)
(***************************************************************************)
wLC == <<"*", "local", "console">>

\* combined records found in the storage directory at start
StoredRecords ==
  { [cn |-> cn, sans |-> {hLC, wLC}] :
      cn \in { <<"local-gateway">>, <<"Local-Gateway">>, hApi, <<>> } }

StoreTemplates == { CertApp(hApiU, {}), CertApp(hDeep, {}) }
StoreConfigs == { [apps |-> <<CertApp(hLC, {})>>] }
StoreNames == {hLC, hApi, hApiU, hDeep}

InitStore ==
  /\ \E obj \in StoreConfigs : InitManager(obj, FALSE)
  /\ \/ disk = NoCert
     \/ \E c \in StoredRecords : disk = [NoCert EXCEPT !.crt = <<c>>, !.key = <<c>>]

NextStore ==
  \/ \E app \in StoreTemplates : GwAddApp(app)
  \/ \E host \in {Lower(h) : h \in StoreNames} : GwRemoveApp(host)
  \/ \E servername \in {Lower(h) : h \in StoreNames} : EnsureCert(servername)
  \/ \E name \in StoreNames : GetSecureContext(name)
  \/ \E servername \in {Lower(h) : h \in StoreNames} : CacheTtl(servername)

SpecStore == InitStore /\ [][NextStore]_vars

(***************************************************************************)
(* Specification of the TLS handshakes: the same operations, starting with *)
(* an empty storage directory.                                             *)
(***************************************************************************)
InitTls ==
  /\ \E obj \in StoreConfigs : InitManager(obj, FALSE)
  /\ disk = NoCert

SpecTls == InitTls /\ [][NextStore]_vars

(***************************************************************************)
(* The certificate writes of ensureCert, one file-system call at a time.   *)
(* The calls of one write are synchronous: no other code of the gateway    *)
(* runs between them, but the storage directory is visible to its readers. *)
(* ensureCert of a name that is not local-like waits for the ACME client,  *)
(* and other handshakes are served meanwhile.                              *)
(***************************************************************************)
Idle == writer = NoFile

\* ensureCert of a local-like name, as called by getSecureContext: the
\* record is reused, or generated and written beginning with
\* fs.writeFileSync(tmpCert, cert)
CombinedWriteBegin(servername) ==
  /\ Idle
  /\ Has(hostMap, servername)
  /\ isLocalDomainName(servername)
  /\ LET r == ensureCert(servername, disk, apps) IN
     IF r.res = "reused"
       THEN /\ ret' = [InitRet EXCEPT !.op = "ensureCert", !.host = servername,
                                      !.res = r.res, !.cert = <<r.cert>>,
                                      !.prev = disk.crt]
            /\ UNCHANGED <<disk, writer>>
       ELSE /\ disk' = [disk EXCEPT !.tmpCrt = <<r.cert>>]
            /\ writer' = <<[kind |-> "combined", host |-> servername,
                            cert |-> r.cert, pc |-> "tmpKey", prev |-> disk.crt]>>
            /\ ret' = [InitRet EXCEPT !.op = "writeFileSync", !.host = servername]
  /\ UNCHANGED <<apps, appOrder, children, procs, manualStops, timers, restartCounts, health, logBuffers, captured,
                 configPath, file, tmp, saves, stopRequested, evHist, delayHist, reqVars, gw, hostMap,
                 secureContextCache, issuing>>

\* the SAN names of the CSR: app.altNames when the app has some, otherwise
\* the hostname
acmeNames(hostname, hm) ==
  IF Has(hm, hostname) /\ hm[hostname].altNames # {}
    THEN hm[hostname].altNames ELSE {hostname}

\* both per-host files exist and tls.createSecureContext accepts the pair
hostPairUsable(d, h) ==
  /\ d.hostCrt[h] # NoFile
  /\ d.hostKey[h] # NoFile
  /\ parses(d.hostCrt[h][1])
  /\ d.hostKey[h] = d.hostCrt[h]

\* getSecureContext of a name that is not local-like: default context,
\* cache hit, reuse of the per-host files, or the start of an ACME order
GetPublicContext(name) ==
  LET servername == Lower(name) IN
  /\ Idle
  /\ ~isLocalDomainName(servername)
  /\ IF ~Has(hostMap, servername)
       THEN /\ ret' = [InitRet EXCEPT !.op = "getSecureContext", !.host = servername,
                                      !.res = "default", !.cert = <<defaultCreds>>]
            /\ UNCHANGED <<secureContextCache, issuing>>
       ELSE IF Has(secureContextCache, servername)
                 /\ ~secureContextCache[servername].expired
       THEN /\ ret' = [InitRet EXCEPT !.op = "getSecureContext", !.host = servername,
                                      !.res = "hit",
                                      !.cert = <<secureContextCache[servername].context>>]
            /\ UNCHANGED <<secureContextCache, issuing>>
       ELSE IF hostPairUsable(disk, servername)
       THEN /\ secureContextCache' =
                 cacheSet(secureContextCache, servername, disk.hostCrt[servername][1])
            /\ ret' = [InitRet EXCEPT !.op = "getSecureContext", !.host = servername,
                                      !.res = "miss",
                                      !.cert = disk.hostCrt[servername]]
            /\ UNCHANGED issuing
       ELSE /\ Len(issuing[servername]) < MaxCalls
            /\ issuing' = [issuing EXCEPT
                             ![servername] = Append(@, acmeNames(servername, hostMap))]
            /\ ret' = [InitRet EXCEPT !.op = "acme", !.host = servername]
            /\ UNCHANGED secureContextCache
  /\ UNCHANGED <<apps, appOrder, children, procs, manualStops, timers, restartCounts, health, logBuffers, captured,
                 configPath, file, tmp, saves, stopRequested, evHist, delayHist, reqVars, gw, hostMap, disk,
                 writer>>

\* client.auto of call i for hostname resolves: fs.writeFileSync(certPath, cert)
AcmeIssued(hostname, i) ==
  /\ Idle
  /\ i \in DOMAIN issuing[hostname]
  /\ LET c == [cn |-> hostname, sans |-> issuing[hostname][i]] IN
     /\ disk' = [disk EXCEPT !.hostCrt[hostname] = <<c>>]
     /\ writer' = <<[kind |-> "host", host |-> hostname, cert |-> c, pc |-> "key",
                     prev |-> NoFile, via |-> "acme"]>>
  /\ issuing' = [issuing EXCEPT ![hostname] = RemoveAt(@, i)]
  /\ ret' = [InitRet EXCEPT !.op = "writeFileSync", !.host = hostname]
  /\ UNCHANGED <<apps, appOrder, children, procs, manualStops, timers, restartCounts, health, logBuffers, captured,
                 configPath, file, tmp, saves, stopRequested, evHist, delayHist, reqVars, gw, hostMap,
                 secureContextCache>>

\* client.auto of call i rejects: selfSigned(hostname) returns the files
\* that exist, or generates a certificate and begins to write it
AcmeFailed(hostname, i) ==
  /\ Idle
  /\ i \in DOMAIN issuing[hostname]
  /\ issuing' = [issuing EXCEPT ![hostname] = RemoveAt(@, i)]
  /\ IF disk.hostCrt[hostname] # NoFile /\ disk.hostKey[hostname] # NoFile
            /\ ~parses(disk.hostCrt[hostname][1])
       THEN \* tls.createSecureContext of getSecureContext throws on the
            \* pair that ensureCert returned
            /\ ret' = [InitRet EXCEPT !.op = "selfSigned", !.host = hostname,
                                      !.res = "reused", !.cert = disk.hostCrt[hostname],
                                      !.key = disk.hostKey[hostname],
                                      !.via = "fallback"]
            /\ UNCHANGED <<disk, writer, secureContextCache>>
       ELSE IF disk.hostCrt[hostname] # NoFile /\ disk.hostKey[hostname] # NoFile
       THEN /\ secureContextCache' =
                 cacheSet(secureContextCache, hostname, disk.hostCrt[hostname][1])
            /\ ret' = [InitRet EXCEPT !.op = "getSecureContext", !.host = hostname,
                                      !.res = "miss", !.cert = disk.hostCrt[hostname],
                                      !.key = disk.hostKey[hostname],
                                      !.via = "fallback"]
            /\ UNCHANGED <<disk, writer>>
       ELSE LET c == [cn |-> hostname, sans |-> {hostname}] IN
            /\ disk' = [disk EXCEPT !.hostCrt[hostname] = <<c>>]
            /\ writer' = <<[kind |-> "host", host |-> hostname, cert |-> c,
                            pc |-> "key", prev |-> NoFile, via |-> "fallback"]>>
            /\ ret' = [InitRet EXCEPT !.op = "writeFileSync", !.host = hostname]
            /\ UNCHANGED secureContextCache
  /\ UNCHANGED <<apps, appOrder, children, procs, manualStops, timers, restartCounts, health, logBuffers, captured,
                 configPath, file, tmp, saves, stopRequested, evHist, delayHist, reqVars, gw, hostMap>>

\* the next file-system call of the write in progress; after the last one
\* ensureCert returns, and getSecureContext caches the context of an ACME
\* or fallback certificate
WriterStep ==
  /\ ~Idle
  /\ LET w == writer[1] IN
     CASE w.pc = "tmpKey" ->
            /\ disk' = [disk EXCEPT !.tmpKey = <<w.cert>>]
            /\ writer' = <<[w EXCEPT !.pc = "renameCrt"]>>
            /\ ret' = [InitRet EXCEPT !.op = "writeFileSync", !.host = w.host]
            /\ UNCHANGED secureContextCache
       [] w.pc = "renameCrt" ->
            /\ disk' = [disk EXCEPT !.crt = disk.tmpCrt, !.tmpCrt = NoFile]
            /\ writer' = <<[w EXCEPT !.pc = "renameKey"]>>
            /\ ret' = [InitRet EXCEPT !.op = "renameSync", !.host = w.host]
            /\ UNCHANGED secureContextCache
       [] w.pc = "renameKey" ->
            /\ disk' = [disk EXCEPT !.key = disk.tmpKey, !.tmpKey = NoFile]
            /\ writer' = NoFile
            /\ ret' = [InitRet EXCEPT !.op = "ensureCert", !.host = w.host,
                                      !.res = "generated", !.cert = <<w.cert>>,
                                      !.prev = w.prev]
            /\ UNCHANGED secureContextCache
       [] w.pc = "key" ->
            /\ disk' = [disk EXCEPT !.hostKey[w.host] = <<w.cert>>]
            /\ writer' = NoFile
            /\ secureContextCache' =
                 cacheSet(secureContextCache, w.host, w.cert)
            /\ ret' = [InitRet EXCEPT !.op = "getSecureContext", !.host = w.host,
                                      !.res = "miss", !.cert = <<w.cert>>,
                                      !.key = <<w.cert>>, !.via = w.via]
  /\ UNCHANGED <<apps, appOrder, children, procs, manualStops, timers, restartCounts, health, logBuffers, captured,
                 configPath, file, tmp, saves, stopRequested, evHist, delayHist, reqVars, gw, hostMap,
                 issuing>>

(***************************************************************************)
(* Specification of the certificate issuance: two local-like apps and apps *)
(* with public names, a storage directory that is empty or holds a record  *)
(* of an earlier installation.                                             *)
(***************************************************************************)
IssueTemplates == { CertApp(hEx, {}), CertApp(hShop, {hEx}) }
IssueConfigs == { [apps |-> <<CertApp(hLC, {}), CertApp(hEx, {})>>] }

InitIssue ==
  /\ \E obj \in IssueConfigs : InitManager(obj, FALSE)
  /\ \/ disk = NoCert
     \/ \E c \in StoredRecords : disk = [NoCert EXCEPT !.crt = <<c>>, !.key = <<c>>]

NextIssue ==
  \/ \E app \in IssueTemplates : Idle /\ GwAddApp(app)
  \/ \E host \in PublicKeys : Idle /\ GwRemoveApp(host)
  \/ CombinedWriteBegin(hLC)
  \/ \E name \in PublicHosts : GetPublicContext(name)
  \/ \E hostname \in PublicKeys, i \in 1..MaxCalls : AcmeIssued(hostname, i)
  \/ \E hostname \in PublicKeys, i \in 1..MaxCalls : AcmeFailed(hostname, i)
  \/ WriterStep
  \/ \E servername \in PublicKeys : Idle /\ CacheTtl(servername)

SpecIssue == InitIssue /\ [][NextIssue]_vars

(***************************************************************************)
(* Specification of the certificate renewal: the storage directory holds   *)
(* the per-host record of an earlier run for example.com, with some days   *)
(* of validity left or with contents that do not parse, and a combined     *)
(* record that parses or not.                                              *)
(***************************************************************************)
\* 'If valid for >10 days, reuse'
RenewDays == 10

\* the days of validity left to a stored per-host record
StoredDays == {0, RenewDays - 1, RenewDays, 30}

\* a file whose contents are not a certificate
garbledFile == [cn |-> <<>>, sans |-> {}, garbled |-> TRUE]

StoredHostRecords ==
  { [cn |-> Lower(hEx), sans |-> {Lower(hEx)}, days |-> d] : d \in StoredDays }
    \cup {garbledFile}

StoredCombined ==
  { [cn |-> combinedName, sans |-> {hLC, wLC}], garbledFile }

InitRenew ==
  /\ \E obj \in IssueConfigs : InitManager(obj, FALSE)
  /\ \E c \in StoredCombined, r \in StoredHostRecords :
       disk = [NoCert EXCEPT !.crt = <<c>>, !.key = <<c>>,
                             !.hostCrt[Lower(hEx)] = <<r>>,
                             !.hostKey[Lower(hEx)] = <<r>>]

SpecRenew == InitRenew /\ [][NextIssue]_vars

(***************************************************************************)
(* The proxy engine: the 'request' and 'upgrade' handlers of httpsSrv.     *)
(* A Host header is absent (NoFile) or <<[name, port]>>, where port = 0    *)
(* stands for a header without ':port'.                                    *)
(***************************************************************************)
\* the literal '127.0.0.1'
ip4Loopback == <<"127", "0", "0", "1">>

\* (req.headers.host || "").toLowerCase().split(":")[0]
hostOf(header) == IF header = NoFile THEN <<>> ELSE Lower(header[1].name)

\* AppManager.runtime(host), the field that the gateway reads
runtime(host) == [running |-> Has(children, Lower(host))]

\* waitHealthy: timeoutMs and the pause between two probes
HealthTimeoutMs == 15000
HealthPollMs == 500

\* what one probe of waitHealthy can give: status 0 stands for a request
\* that throws, the durations are those of an answer within seconds and of
\* an endpoint that answers after timeoutMs (request sets no timeout)
ProbeStatuses == {0, 200, 302, 404, 503}
ProbeMs == {4500, 20000}

\* 'request' handler: app.upstream || (app.port ? ... : ...)
httpUpstream(app) ==
  IF app.upstream # NoFile THEN app.upstream[1]
  ELSE IF app.port # 0
    THEN [protocol |-> "http", host |-> ip4Loopback, port |-> app.port,
          rejectUnauthorized |-> "undefined"]
    ELSE [protocol |-> "http", host |-> ip4Loopback, port |-> 80,
          rejectUnauthorized |-> "undefined"]

\* 'request' handler: target and proxyOpts
proxyOpts(app, header) ==
  LET upstream == httpUpstream(app) IN
  [target |-> <<upstream.protocol, upstream.host, upstream.port>>,
   changeOrigin |-> ~app.preserveHost,
   secure |-> IF upstream.protocol = "https"
                THEN (IF upstream.rejectUnauthorized # "false" THEN "true" ELSE "false")
                ELSE "unset",
   headers |-> IF app.preserveHost /\ header # NoFile THEN header ELSE NoFile]

\* 'upgrade' handler: app.upstream || (app.port ? ... : ...)
wsUpstream(app) ==
  IF app.upstream # NoFile THEN app.upstream[1]
  ELSE IF app.port # 0
    THEN [protocol |-> "http", host |-> ip4Loopback, port |-> app.port,
          rejectUnauthorized |-> "undefined"]
    ELSE [protocol |-> "http", host |-> ip4Loopback, port |-> 80,
          rejectUnauthorized |-> "undefined"]

\* 'upgrade' handler: wsOpts without the Host header policy of the request
\* handler
wsOptsNoHostPolicy(app, header) ==
  LET upstream == wsUpstream(app) IN
  [target |-> <<upstream.protocol, upstream.host, upstream.port>>,
   changeOrigin |-> TRUE,
   secure |-> IF upstream.protocol = "https"
                THEN (IF upstream.rejectUnauthorized # "false" THEN "true" ELSE "false")
                ELSE "unset",
   headers |-> NoFile]

\* 'upgrade' handler: target and wsOpts
wsOpts(app, header) ==
  LET upstream == wsUpstream(app) IN
  [target |-> <<upstream.protocol, upstream.host, upstream.port>>,
   changeOrigin |-> ~app.preserveHost,
   secure |-> IF upstream.protocol = "https"
                THEN (IF upstream.rejectUnauthorized # "false" THEN "true" ELSE "false")
                ELSE "unset",
   headers |-> IF app.preserveHost /\ header # NoFile THEN header ELSE NoFile]

\* the configured apps whose lowercased host is this one, in the order of
\* manager.listApps()
configured(host) ==
  LET ks == SelectSeq(appOrder, LAMBDA k : Lower(apps[k].host) = host)
  IN [i \in DOMAIN ks |-> apps[ks[i]]]

\* the record of a request that has just arrived with this Host header
Arrived(kind, header) ==
  [kind |-> kind, header |-> header, app |-> NoFile, status |-> 0,
   served |-> "none", opts |-> NoFile, probes |-> 0, sawOk |-> FALSE,
   elapsed |-> 0, running |-> FALSE, cfg |-> configured(hostOf(header))]

\* 'request' handler after waitHealthy has returned: status 0 stands for the
\* status that the upstream gives
afterHealth(o, app, healthy) ==
  IF ~healthy /\ app.healthUrl THEN [o EXCEPT !.status = 502]
  ELSE IF app.staticDir THEN [o EXCEPT !.status = 200, !.served = "static"]
  ELSE [o EXCEPT !.served = "proxied", !.opts = <<proxyOpts(app, o.header)>>]

\* a request whose TLS connection is left out of the account
NoConn == [sni |-> <<>>, context |-> ""]

\* 'request' handler up to the first await, for a request on the
\* connection c: one request at a time is followed through waitHealthy
HttpRequestOn(c, header) ==
  /\ req = NoFile
  /\ LET host == hostOf(header)
         o0 == Arrived("http", header)
     IN IF ~Has(hostMap, host)
          THEN out' = [o0 EXCEPT !.status = 502] /\ req' = req
          ELSE LET app == hostMap[host]
                   o1 == [o0 EXCEPT !.app = <<app>>,
                            !.running = \E k \in DOMAIN apps :
                                           apps[k] = app /\ Has(children, k)]
               IN IF app.start /\ ~runtime(app.host).running
                    THEN out' = [o1 EXCEPT !.status = 503] /\ req' = req
                    ELSE IF ~app.healthUrl
                      THEN out' = afterHealth(o1, app, TRUE) /\ req' = req
                      ELSE req' = <<o1>> /\ out' = out
  /\ ret' = [InitRet EXCEPT !.op = "request", !.host = c.sni, !.via = c.context]
  /\ UNCHANGED <<apps, appOrder, children, procs, manualStops, timers, restartCounts, health, logBuffers, captured,
                 configPath, file, tmp, saves, stopRequested, evHist, delayHist, disk, hostMap,
                 secureContextCache, issuing, writer, gw, wsOut, resp>>

HttpRequest(header) == HttpRequestOn(NoConn, header)

\* SNICallback of httpsSrv for a server name that is not in the host map:
\* getSecureContext returns the context of defaultCreds
TlsConnect(name) ==
  LET servername == Lower(name) IN
  /\ gw.exit = NoFile /\ gw.https = "listening"
  /\ ~Has(hostMap, servername)
  /\ gw' = [gw EXCEPT !.conns = @ \cup {[sni |-> servername, context |-> "default"]}]
  /\ ret' = [InitRet EXCEPT !.op = "getSecureContext", !.host = servername,
                            !.res = "default", !.cert = <<defaultCreds>>]
  /\ UNCHANGED <<apps, appOrder, children, procs, manualStops, timers, restartCounts, health, logBuffers, captured,
                 configPath, file, tmp, saves, stopRequested, evHist, delayHist, disk, hostMap,
                 secureContextCache, issuing, writer, reqVars>>

\* the client closes its connection
TlsClose(c) ==
  /\ c \in gw.conns
  /\ gw' = [gw EXCEPT !.conns = @ \ {c}]
  /\ ret' = [InitRet EXCEPT !.op = "close", !.host = c.sni]
  /\ UNCHANGED <<apps, appOrder, children, procs, manualStops, timers, restartCounts, health, logBuffers, captured,
                 configPath, file, tmp, saves, stopRequested, evHist, delayHist, disk, hostMap,
                 secureContextCache, issuing, writer, reqVars>>

\* a request arrives on an open connection
ConnRequest(c, header) ==
  /\ c \in gw.conns
  /\ HttpRequestOn(c, header)

\* waitHealthy: the probe in flight returns, then the loop pauses and probes
\* again, or returns
ProbeReturns(status, ms) ==
  /\ req # NoFile
  /\ LET r == req[1]
         app == r.app[1]
         r1 == [r EXCEPT !.probes = @ + 1, !.elapsed = @ + ms,
                         !.sawOk = @ \/ (status >= 200 /\ status < 400)]
         r2 == [r1 EXCEPT !.elapsed = @ + HealthPollMs]
     IN IF status >= 200 /\ status < 500
          THEN out' = afterHealth(r1, app, TRUE) /\ req' = NoFile
          ELSE IF r2.elapsed < HealthTimeoutMs
            THEN req' = <<r2>> /\ out' = out
            ELSE out' = afterHealth(r2, app, FALSE) /\ req' = NoFile
  /\ ret' = [InitRet EXCEPT !.op = "probe"]
  /\ UNCHANGED <<apps, appOrder, children, procs, manualStops, timers, restartCounts, health, logBuffers, captured,
                 configPath, file, tmp, saves, stopRequested, evHist, delayHist, disk, hostMap,
                 secureContextCache, issuing, writer, gw, wsOut, resp>>

\* 'upgrade' handler of httpsSrv
Upgrade(header) ==
  /\ LET host == hostOf(header)
         o0 == Arrived("ws", header)
     IN IF ~Has(hostMap, host)
          THEN wsOut' = o0
          ELSE LET app == hostMap[host] IN
               wsOut' = [o0 EXCEPT !.app = <<app>>, !.served = "proxied",
                                   !.opts = <<wsOpts(app, header)>>]
  /\ ret' = [InitRet EXCEPT !.op = "upgrade"]
  /\ UNCHANGED <<apps, appOrder, children, procs, manualStops, timers, restartCounts, health, logBuffers, captured,
                 configPath, file, tmp, saves, stopRequested, evHist, delayHist, disk, hostMap,
                 secureContextCache, issuing, writer, gw, req, out, resp>>

\* manager operations called on the gateway (admin API, exit of a child)
GwUpdateApp(host, partial) ==
  LET r == updateApp(Mgr, host, partial) IN
  /\ Commit(r)
  /\ ret' = Result("updateApp", host, r, 0, FALSE)
  /\ GwListeners(r)
  /\ UNCHANGED <<configPath, file, tmp, stopRequested, secureContextCache, gwRest>>

GwStart(host) ==
  LET r == start(Mgr, host) IN
  /\ Commit(r)
  /\ ret' = Result("start", host, r, 0, FALSE)
  /\ GwListeners(r)
  /\ UNCHANGED <<configPath, file, tmp, stopRequested, secureContextCache, gwRest>>

GwStop(host) ==
  LET r == stop(Mgr, host) IN
  /\ Commit(r)
  /\ ret' = Result("stop", host, r, 0, FALSE)
  /\ GwListeners(r)
  /\ UNCHANGED <<configPath, file, tmp, stopRequested, secureContextCache, gwRest>>

GwChildExit(pid, code) ==
  /\ pid \in DOMAIN procs
  /\ LET r == onExit(Mgr, pid, code) IN
     /\ Commit(r)
     /\ ret' = Result("exit", procs[pid].key, r, code, procs[pid].key \in manualStops)
     /\ GwListeners(r)
  /\ UNCHANGED <<configPath, file, tmp, stopRequested, secureContextCache, gwRest>>

(***************************************************************************)
(* The 'proxyRes' listener: rewriting of Location and Set-Cookie.          *)
(* A URL is [scheme, host, port, path, cb, hash]: port = 0 stands for no   *)
(* port, cb is the value of the query parameter 'callback' (NoFile when    *)
(* absent, else <<URL>>), a relative URL has scheme "" and host <<>>, and  *)
(* an IPv6 literal is the one label it is written as ("[::1]").            *)
(***************************************************************************)
Url(scheme, host, port, path, cb, hash) ==
  [scheme |-> scheme, host |-> host, port |-> port, path |-> path,
   cb |-> cb, hash |-> hash]

\* the port that the URL parser leaves out of a URL of this scheme
defaultPort(scheme) == IF scheme = "https" THEN 443 ELSE 80

\* new URL(loc, base): the host is lowercased, a default port is dropped, a
\* relative URL takes scheme and host of the base
parseUrl(loc, baseProtocol, baseHost) ==
  IF loc.scheme = ""
    THEN [loc EXCEPT !.scheme = baseProtocol, !.host = Lower(baseHost), !.port = 0]
    ELSE [loc EXCEPT !.host = Lower(@),
                     !.port = IF @ = defaultPort(loc.scheme) THEN 0 ELSE @]

\* publicHostFull.split(':')[0]
publicHost(header) == header[1].name

\* the port of the Host header, else req.socket.localPort
incomingPort(header, localPort) ==
  IF header[1].port # 0 THEN header[1].port ELSE localPort

\* ensureCallbackPort(urlObj)
ensureCallbackPort(u, header, localPort) ==
  IF u.cb = NoFile THEN u
  ELSE LET cbUrl == parseUrl(u.cb[1], "", <<>>)
           p == incomingPort(header, localPort)
       IN IF cbUrl.host = publicHost(header) /\ cbUrl.port = 0 /\ p # 0
            THEN [u EXCEPT !.cb = <<[cbUrl EXCEPT
                            !.port = IF p = defaultPort(cbUrl.scheme) THEN 0 ELSE p]>>]
            ELSE u

\* the rewrite of proxyRes.headers['location']
rewriteLocation(loc, header, upstreamHost, upstreamProtocol, localPort) ==
  IF loc = NoFile \/ header = NoFile \/ publicHost(header) = <<>> THEN loc
  ELSE LET u == parseUrl(loc[1], upstreamProtocol, upstreamHost)
           locHost == u.host
           isInternalTarget == \/ locHost = upstreamHost
                               \/ locHost = ip4Loopback
                               \/ locHost = <<"localhost">>
                               \/ locHost = <<"::1">>
           v == ensureCallbackPort(u, header, localPort)
       IN IF isInternalTarget
            THEN <<Url("https", header[1].name, header[1].port, v.path, v.cb, v.hash)>>
            ELSE <<v>>

\* a cookie is a sequence of [name, value]: the cookie pair, then its
\* attributes; cookie.replace(/;?\s*Domain=[^;]+/i, '') removes the first
\* attribute named Domain in any letter case
RECURSIVE firstDomain(_, _)
firstDomain(cookie, i) ==
  IF i > Len(cookie) THEN 0
  ELSE IF LowerLabel(cookie[i].name) = "domain" THEN i
  ELSE firstDomain(cookie, i + 1)

stripDomain(cookie) ==
  LET i == firstDomain(cookie, 1) IN
  IF i = 0 THEN cookie
  ELSE SubSeq(cookie, 1, i - 1) \o SubSeq(cookie, i + 1, Len(cookie))

\* sc.map(cookie => cookie.replace(...))
rewriteCookies(sc) == [i \in DOMAIN sc |-> stripDomain(sc[i])]

\* proxy.on('proxyRes'): the response of the last proxied request arrives
\* with this Location and these Set-Cookie entries
ProxyRes(loc, sc, localPort) ==
  /\ out.kind = "http"
  /\ out.served = "proxied"
  /\ LET target == out.opts[1].target
         newLoc == rewriteLocation(loc, out.header, target[2], target[1], localPort)
     IN resp' = [kind |-> "proxyRes", header |-> out.header, upstreamHost |-> target[2],
                 upstreamProtocol |-> target[1], localPort |-> localPort,
                 upstreamLocation |-> loc, upstreamCookies |-> sc,
                 location |-> newLoc, first |-> newLoc, passes |-> 1,
                 cookies |-> rewriteCookies(sc)]
  /\ ret' = [InitRet EXCEPT !.op = "proxyRes"]
  /\ UNCHANGED <<apps, appOrder, children, procs, manualStops, timers, restartCounts, health, logBuffers, captured,
                 configPath, file, tmp, saves, stopRequested, evHist, delayHist, disk,
                 hostMap, secureContextCache, issuing, writer, gw, req, out, wsOut>>

\* the rewritten headers are given to the listener once more, for the same
\* request
RewriteAgain ==
  /\ resp.kind = "proxyRes"
  /\ resp.passes = 1
  /\ resp' = [resp EXCEPT
                !.location = rewriteLocation(resp.location, resp.header, resp.upstreamHost,
                                             resp.upstreamProtocol, resp.localPort),
                !.cookies = rewriteCookies(resp.cookies),
                !.passes = 2]
  /\ ret' = [InitRet EXCEPT !.op = "proxyRes"]
  /\ UNCHANGED <<apps, appOrder, children, procs, manualStops, timers, restartCounts, health, logBuffers, captured,
                 configPath, file, tmp, saves, stopRequested, evHist, delayHist, disk,
                 hostMap, secureContextCache, issuing, writer, gw, req, out, wsOut>>

(***************************************************************************)
(* Specification of the health gate: one supervised app behind a health    *)
(* endpoint.                                                               *)
(***************************************************************************)
rA == ReqApp(hA, 3000, TRUE, TRUE, FALSE, NoFile, FALSE)
HealthConfigs == { [apps |-> <<rA>>] }
HealthHeaders == { <<[name |-> hAU, port |-> 443]>>, <<[name |-> hB, port |-> 0]>> }

InitHealth ==
  /\ \E obj \in HealthConfigs : InitManager(obj, FALSE)
  /\ disk = NoCert

NextHealth ==
  \/ GwStart(hA)
  \/ GwStop(hA)
  \/ \E pid \in 1..MaxProcs : GwChildExit(pid, 1)
  \/ \E u \in { <<hA, [staticDir |-> TRUE]>>, <<hA, [staticDir |-> FALSE]>> } :
       GwUpdateApp(u[1], u[2])
  \/ \E header \in HealthHeaders : HttpRequest(header)
  \/ \E status \in ProbeStatuses, ms \in ProbeMs : ProbeReturns(status, ms)

SpecHealth == InitHealth /\ [][NextHealth]_vars

(***************************************************************************)
(* Specification of the running check: two supervised apps, started and    *)
(* stopped through the admin API, and the update of a host.                *)
(***************************************************************************)
rB == ReqApp(hB, 3001, TRUE, FALSE, FALSE, NoFile, FALSE)
RunConfigs == { [apps |-> <<rB, rA>>] }
RunUpdates == { <<hA, [host |-> hB]>> }
RunHeaders == { <<[name |-> hAU, port |-> 443]>>, <<[name |-> hB, port |-> 0]>> }

InitRun ==
  /\ \E obj \in RunConfigs : InitManager(obj, FALSE)
  /\ disk = NoCert

NextRun ==
  \/ \E u \in RunUpdates : GwUpdateApp(u[1], u[2])
  \/ \E h \in {hA, hB} : GwStart(h)
  \/ \E h \in {hA, hB} : GwStop(h)
  \/ \E pid \in 1..MaxProcs : GwChildExit(pid, 1)
  \/ \E header \in RunHeaders : HttpRequest(header)
  \/ \E status \in {200, 503}, ms \in {4500} : ProbeReturns(status, ms)

SpecRun == InitRun /\ [][NextRun]_vars

(***************************************************************************)
(* Specification of the routing: externally managed apps that are added,   *)
(* updated and removed.                                                    *)
(***************************************************************************)
sA == ReqApp(hA, 3000, FALSE, FALSE, FALSE, NoFile, FALSE)
sAU == ReqApp(hAU, 3002, FALSE, FALSE, TRUE, NoFile, FALSE)
sB == ReqApp(hB, 3001, FALSE, FALSE, FALSE, NoFile, FALSE)
RouteTemplates == {sA, sAU, sB}
RouteUpdates == { <<hA, [host |-> hB]>>, <<hAU, [port |-> 3003]>>, <<hB, [host |-> hAU]>> }
RouteConfigs == { [apps |-> <<>>], [apps |-> <<sB, sA>>] }
RouteHeaders == { NoFile, <<[name |-> hAU, port |-> 443]>>, <<[name |-> hA, port |-> 0]>>,
                  <<[name |-> hB, port |-> 0]>> }

InitRoute ==
  /\ \E obj \in RouteConfigs : InitManager(obj, FALSE)
  /\ disk = NoCert

NextRoute ==
  \/ \E app \in RouteTemplates : GwAddApp(app)
  \/ \E h \in {hA, hB} : GwRemoveApp(h)
  \/ \E u \in RouteUpdates : GwUpdateApp(u[1], u[2])
  \/ \E header \in RouteHeaders : HttpRequest(header)

SpecRoute == InitRoute /\ [][NextRoute]_vars

(***************************************************************************)
(* Specification of the upstream derivation: externally managed apps with  *)
(* a local port or an upstream object, requests and WebSocket upgrades.    *)
(***************************************************************************)
upInsecure == <<[protocol |-> "https", host |-> <<"10", "0", "0", "5">>, port |-> 8443,
                 rejectUnauthorized |-> "false"]>>
upVerified == <<[protocol |-> "https", host |-> <<"10", "0", "0", "5">>, port |-> 8443,
                 rejectUnauthorized |-> "undefined"]>>
pA == ReqApp(hA, 3000, FALSE, FALSE, FALSE, NoFile, FALSE)
pB == ReqApp(hB, 0, FALSE, FALSE, FALSE, upInsecure, TRUE)
ParityTemplates == {pA}
ParityUpdates == { <<hA, [port |-> 0]>>, <<hA, [preserveHost |-> TRUE]>>,
                   <<hB, [upstream |-> upVerified]>>, <<hB, [staticDir |-> TRUE]>> }
ParityConfigs == { [apps |-> <<pA, pB>>] }
ParityHeaders == { NoFile, <<[name |-> hAU, port |-> 443]>>, <<[name |-> hB, port |-> 0]>> }

InitParity ==
  /\ \E obj \in ParityConfigs : InitManager(obj, FALSE)
  /\ disk = NoCert

NextParity ==
  \/ \E app \in ParityTemplates : GwAddApp(app)
  \/ GwRemoveApp(hA)
  \/ \E u \in ParityUpdates : GwUpdateApp(u[1], u[2])
  \/ \E header \in ParityHeaders : HttpRequest(header)
  \/ \E header \in ParityHeaders : Upgrade(header)

SpecParity == InitParity /\ [][NextParity]_vars

(***************************************************************************)
(* Specification of the restart backoff: one supervised app that exits     *)
(* with code 1, is stopped, started, removed and added again.              *)
(***************************************************************************)
BackoffExit(pid, code) ==
  /\ pid \in DOMAIN procs
  /\ LET r == exitHandler(Mgr, pid, code, MaxBackoff) IN
     /\ Commit(r)
     /\ ret' = Result("exit", procs[pid].key, r, code, procs[pid].key \in manualStops)
  /\ UNCHANGED <<configPath, file, tmp, disk, gwVars, stopRequested>>

BackoffConfigs == { [apps |-> <<App(hA, 3000, TRUE)>>] }

InitBackoff ==
  /\ \E obj \in BackoffConfigs : InitManager(obj, FALSE)
  /\ disk = NoCert

NextBackoff ==
  \/ AddApp(App(hA, 3000, TRUE))
  \/ RemoveApp(hA)
  \/ Start(hA)
  \/ Stop(hA)
  \/ \E pid \in 1..MaxProcs : BackoffExit(pid, 1)
  \/ RestartTimer(hA)

SpecBackoff == InitBackoff /\ [][NextBackoff]_vars

(***************************************************************************)
(* Specification of the TLS context cache: more configured hosts than      *)
(* MAX_CERT_CACHE_SIZE, handshaken one after the other within the TTL of    *)
(* the first entry.                                                        *)
(***************************************************************************)
Numerals == <<"0", "1", "2", "3", "4", "5", "6", "7", "8", "9", "10">>
\* one configured host more than the cache may hold
NumCacheHosts == MAX_CERT_CACHE_SIZE + 1
CacheHost(n) == <<Numerals[((n - 1) \div 10) + 1], Numerals[((n - 1) % 10) + 1], "local">>
\* the configured apps, whose hosts are distinct lowercase names: the Map
\* of loadConfig holds each app under its host, in the order of the list
CacheOrder == [n \in 1..NumCacheHosts |-> CacheHost(n)]
CacheApps == [k \in {CacheHost(n) : n \in 1..NumCacheHosts} |-> App(k, 0, FALSE)]

\* the server name has an entry that has not expired
fresh(name) == Has(secureContextCache, name) /\ ~secureContextCache[name].expired

\* a handshake for the first host that has no entry, or an expired one
Handshake(n) ==
  /\ ~fresh(CacheHost(n))
  /\ \A j \in 1..(n - 1) : fresh(CacheHost(j))
  /\ GetSecureContext(CacheHost(n))

InitCache ==
  /\ InitLoaded(CacheApps, CacheOrder, CacheApps, FALSE)
  /\ disk = NoCert

NextCache ==
  \/ \E n \in 1..NumCacheHosts : Handshake(n)
  \/ Sweep

SpecCache == InitCache /\ [][NextCache]_vars

(***************************************************************************)
(* Specification of the rejected mutations: a gateway whose manager has a  *)
(* configPath, two apps that want the same port, and calls for hosts that  *)
(* are missing, unknown or configured already.                             *)
(***************************************************************************)
eA == NoRestart(App(hA, 3000, TRUE))
eB == NoRestart(App(hB, 3000, TRUE))
eNoHost == NoRestart(App(<<>>, 3001, FALSE))
ErrTemplates == {eA, eB, eNoHost}
ErrHosts == {hA, hB}
ErrConfigs == { [apps |-> <<eA>>] }

InitErrors ==
  /\ \E obj \in ErrConfigs : InitManager(obj, TRUE)
  /\ disk = NoCert

NextErrors ==
  \/ \E app \in ErrTemplates : GwAddApp(app)
  \/ GwRemoveApp(hB)
  \/ \E host \in ErrHosts : GwStart(host)
  \/ \E i \in 1..MaxSaves : SaveWrite(i)
  \/ \E i \in 1..MaxSaves : SaveRename(i)

SpecErrors == InitErrors /\ [][NextErrors]_vars

(***************************************************************************)
(* The probes of the periodic health probers                               *)
(***************************************************************************)
\* the callback of setInterval(run, intervalMs): run() sends its request
HealthTick(key) ==
  /\ gw.exit = NoFile
  /\ Live(health, key) > 0
  /\ Runs(health, key).cur + Runs(health, key).stale < MaxProbes
  /\ health' = [health EXCEPT
                  !.runs = SetRuns(health, key, [Runs(health, key) EXCEPT !.cur = @ + 1])]
  /\ ret' = [InitRet EXCEPT !.op = "run", !.host = key]
  /\ UNCHANGED <<apps, appOrder, children, procs, manualStops, timers, restartCounts,
                 logBuffers, captured, configPath, file, tmp, saves, stopRequested,
                 evHist, delayHist, disk, gwVars>>

\* healthy = res.statusCode >= 200 && res.statusCode < 400; status 0 is the
\* state of the catch
healthyStatus(status) == status >= 200 /\ status < 400

\* run() after its await: the response of a request of a live timer
\* (cleared = FALSE) or of a cleared one arrives, healthState.set and
\* emit('app-health')
HealthDone(key, cleared, status) ==
  /\ gw.exit = NoFile
  /\ LET r == Runs(health, key) IN
     /\ IF cleared THEN r.stale > 0 ELSE r.cur > 0
     /\ health' = [health EXCEPT
                     !.runs = SetRuns(health, key,
                                IF cleared THEN [r EXCEPT !.stale = @ - 1]
                                           ELSE [r EXCEPT !.cur = @ - 1]),
                     !.state = Put(@, key, [healthy |-> healthyStatus(status),
                                            statusCode |-> status])]
  /\ ret' = [InitRet EXCEPT !.op = "app-health", !.host = key,
                            !.res = IF cleared THEN "cleared" ELSE "live",
                            !.code = status]
  /\ UNCHANGED <<apps, appOrder, children, procs, manualStops, timers, restartCounts,
                 logBuffers, captured, configPath, file, tmp, saves, stopRequested,
                 evHist, delayHist, disk, gwVars>>

(***************************************************************************)
(* Specification of the health probers: externally managed apps with and   *)
(* without a healthUrl, loaded from the configuration or added later.      *)
(***************************************************************************)
qA == ReqApp(hA, 3000, FALSE, TRUE, FALSE, NoFile, FALSE)
qB == ReqApp(hB, 3001, FALSE, FALSE, FALSE, NoFile, FALSE)
ProbeTemplates == {qA, qB}
ProbeUpdates == { <<hA, [port |-> 3002]>>, <<hB, [healthUrl |-> TRUE]>> }
ProbeConfigs == { [apps |-> <<>>], [apps |-> <<qA>>] }
ProbeKeys == {hA, hB}
HealthStatuses == {0, 200, 503}

InitProbe ==
  /\ \E obj \in ProbeConfigs : InitManager(obj, FALSE)
  /\ disk = NoCert

NextProbe ==
  \/ \E app \in ProbeTemplates : AddApp(app)
  \/ \E u \in ProbeUpdates : UpdateApp(u[1], u[2])
  \/ \E host \in ProbeKeys : RemoveApp(host)
  \/ \E key \in ProbeKeys : HealthTick(key)
  \/ \E key \in ProbeKeys, cleared \in BOOLEAN, status \in HealthStatuses :
       HealthDone(key, cleared, status)

SpecProbe == InitProbe /\ [][NextProbe]_vars

(***************************************************************************)
(* Specification of the host router: the mutations of the configuration,   *)
(* called on the gateway, whose listeners rebuild the host map.            *)
(***************************************************************************)
\* manager.enable called on the gateway
GwEnable(host) ==
  LET r == enable(Mgr, host) IN
  /\ Commit(r)
  /\ ret' = Result("enable", host, r, 0, FALSE)
  /\ GwListeners(r)
  /\ UNCHANGED <<configPath, file, tmp, stopRequested, secureContextCache, gwRest>>

\* manager.disable called on the gateway
GwDisable(host) ==
  LET r == disable(Mgr, host) IN
  /\ Commit(r)
  /\ ret' = Result("disable", host, r, 0, FALSE)
  /\ GwListeners(r)
  /\ UNCHANGED <<configPath, file, tmp, stopRequested, secureContextCache, gwRest>>

MapUpdates == { <<hA, [host |-> hB]>>, <<hAU, [port |-> 3003]>> }

NextMap ==
  \/ \E app \in RouteTemplates : GwAddApp(app)
  \/ \E h \in {hA, hB} : GwRemoveApp(h)
  \/ \E u \in MapUpdates : GwUpdateApp(u[1], u[2])
  \/ \E h \in {hAU, hB} : GwEnable(h)
  \/ \E h \in {hAU, hB} : GwDisable(h)

SpecMap == InitRoute /\ [][NextMap]_vars

(***************************************************************************)
(* Specification of the disabled apps: an app with a start command and an  *)
(* externally managed one, disabled and enabled by the control plane.      *)
(***************************************************************************)
dA == NoRestart(App(hA, 3000, TRUE))
dB == NoRestart(App(hB, 3001, FALSE))
DisabledConfigs == { [apps |-> <<dA, dB>>] }
DisabledUpdates == { <<hA, [disabled |-> TRUE]>>, <<hA, [disabled |-> FALSE]>> }
DisabledHosts == {hA, hB}

InitDisabled ==
  /\ \E obj \in DisabledConfigs : InitManager(obj, FALSE)
  /\ disk = NoCert

NextDisabled ==
  \/ \E h \in DisabledHosts : GwStart(h)
  \/ \E h \in DisabledHosts : GwDisable(h)
  \/ \E h \in DisabledHosts : GwEnable(h)
  \/ \E u \in DisabledUpdates : GwUpdateApp(u[1], u[2])
  \/ \E pid \in 1..MaxProcs : GwChildExit(pid, 0)

SpecDisabled == InitDisabled /\ [][NextDisabled]_vars

(***************************************************************************)
(* Specification of the connections with an unknown server name: the       *)
(* handshakes give a server name that is absent or not configured, the     *)
(* requests of the connection carry any Host header.                       *)
(***************************************************************************)
hNone == <<"other", "example", "net">>
SniNames == { <<>>, hNone, hB }
SniConns == { [sni |-> Lower(n), context |-> "default"] : n \in SniNames }
SniHeaders == { NoFile, <<[name |-> hNone, port |-> 0]>>, <<[name |-> hA, port |-> 0]>>,
                <<[name |-> hB, port |-> 443]>> }
SniConfigs == { [apps |-> <<sA>>] }

InitSni ==
  /\ \E obj \in SniConfigs : InitManager(obj, FALSE)
  /\ disk = NoCert

NextSni ==
  \/ GwAddApp(sB)
  \/ GwRemoveApp(hB)
  \/ \E name \in SniNames : TlsConnect(name)
  \/ \E c \in SniConns : TlsClose(c)
  \/ \E c \in SniConns, header \in SniHeaders : ConnRequest(c, header)

SpecSni == InitSni /\ [][NextSni]_vars

(***************************************************************************)
(* The listeners: startServers and the 'error' handlers of both servers    *)
(***************************************************************************)
\* server.listen(port): a server that listens already throws
\* ERR_SERVER_ALREADY_LISTEN; a bind to a port in use fails and the server
\* emits 'error' with the code EADDRINUSE. The attempts are counted up to
\* MaxBinds.
listen(g, s) ==
  IF g[s] = "listening" THEN [g |-> g, threw |-> TRUE, over |-> FALSE]
  ELSE LET g1 == [g EXCEPT !.binds[s] = IF @ < MaxBinds THEN @ + 1 ELSE @] IN
       IF s \in g.busy
         THEN [g |-> [g1 EXCEPT ![s] = "failed", !.errs[s] = @ + 1],
               threw |-> FALSE, over |-> g.errs[s] >= MaxPending]
         ELSE [g |-> [g1 EXCEPT ![s] = "listening"], threw |-> FALSE, over |-> FALSE]

\* startServers: httpSrv.listen, then httpsSrv.listen; an exception of the
\* first call leaves the function
startServers(g) ==
  LET a == listen(g, "http") IN
  IF a.threw THEN a
  ELSE LET b == listen(a.g, "https") IN [b EXCEPT !.over = a.over \/ b.over]

\* the 'error' handler of a server for EADDRINUSE: after a second
\* server.close(), whose callback sets the timer of startServers
ListenError(s) ==
  /\ gw.exit = NoFile
  /\ gw.errs[s] > 0
  /\ gw.retry < MaxPending
  /\ gw' = [gw EXCEPT !.errs[s] = @ - 1,
                      ![s] = IF @ = "listening" THEN "closed" ELSE @,
                      !.retry = @ + 1]
  /\ ret' = [InitRet EXCEPT !.op = "error", !.res = s]
  /\ UNCHANGED <<apps, appOrder, children, procs, manualStops, timers, restartCounts, health, logBuffers, captured,
                 configPath, file, tmp, saves, stopRequested, evHist, delayHist, disk, hostMap,
                 secureContextCache, issuing, writer, reqVars>>

\* setTimeout(startServers, 1000) fires; an exception of startServers goes
\* to the 'uncaughtException' listener, which logs it
RetryStartServers ==
  /\ gw.exit = NoFile
  /\ gw.retry > 0
  /\ LET r == startServers([gw EXCEPT !.retry = @ - 1]) IN
     /\ ~r.over
     /\ gw' = r.g
     /\ ret' = [InitRet EXCEPT !.op = "startServers", !.threw = r.threw]
  /\ UNCHANGED <<apps, appOrder, children, procs, manualStops, timers, restartCounts, health, logBuffers, captured,
                 configPath, file, tmp, saves, stopRequested, evHist, delayHist, disk, hostMap,
                 secureContextCache, issuing, writer, reqVars>>

(***************************************************************************)
(* The log buffers: the 'data' listeners of _wireChild and tail            *)
(***************************************************************************)
\* this.maxLogs = options?.maxLogs || 500
DefaultMaxLogs == 500
LogOptions == [maxLogs |-> MaxLogs]
maxLogs == IF LogOptions.maxLogs # 0 THEN LogOptions.maxLogs ELSE DefaultMaxLogs

\* tail(host, limit = 200)
DefaultTail == 200

\* buf.slice(-n) for n > 0
lastOf(buf, n) == IF Len(buf) <= n THEN buf ELSE SubSeq(buf, Len(buf) - n + 1, Len(buf))

\* buf.splice(0, n)
spliceFront(buf, n) == SubSeq(buf, n + 1, Len(buf))

\* appendLog without the splice of the entries beyond maxLogs
appendLogNoSplice(buf, entry) == Append(buf, entry)

\* appendLog: buf.push(entry); if (buf.length > this.maxLogs)
\* buf.splice(0, buf.length - this.maxLogs)
appendLog(buf, entry) ==
  LET b == Append(buf, entry) IN
  IF Len(b) > maxLogs THEN spliceFront(b, Len(b) - maxLogs) ELSE b

\* a 'data' event of stdout or stderr of a child that runs: the listener
\* of _wireChild appends the chunk to the buffer of the key of the child
ChildOutput(pid, stream, line) ==
  /\ gw.exit = NoFile
  /\ pid \in DOMAIN procs
  /\ LET key == procs[pid].key
         entry == [stream |-> stream, line |-> line]
         buf == IF Has(logBuffers, key) THEN logBuffers[key] ELSE <<>>
     IN /\ Len(captured[key]) < MaxChunks
        /\ logBuffers' = Put(logBuffers, key, appendLog(buf, entry))
        /\ captured' = [captured EXCEPT ![key] = Append(@, entry)]
        /\ ret' = [InitRet EXCEPT !.op = "app-log", !.host = key, !.res = line]
  /\ UNCHANGED <<apps, appOrder, children, procs, manualStops, timers, restartCounts, health,
                 configPath, file, tmp, saves, stopRequested, evHist, delayHist, disk, gwVars>>

\* AppManager.tail(host, limit)
tail(host, limit) ==
  LET key == Lower(host)
      buf == IF Has(logBuffers, key) THEN logBuffers[key] ELSE <<>>
  IN /\ ret' = [InitRet EXCEPT !.op = "tail", !.host = key, !.code = limit,
                               !.cert = <<lastOf(buf, limit)>>]
     /\ UNCHANGED <<apps, appOrder, children, procs, manualStops, timers, restartCounts, health,
                    logBuffers, captured,
                    configPath, file, tmp, saves, stopRequested, evHist, delayHist, disk, gwVars>>

(***************************************************************************)
(* Specification of the log capture: one app with a start command whose    *)
(* children write to stdout and stderr.                                    *)
(***************************************************************************)
LogStreams == {"stdout", "stderr"}
LogLines == {"listening"}
TailLimits == {1, DefaultTail}
LogConfigs == { [apps |-> <<NoRestart(App(hA, 3000, TRUE))>>] }

InitLogs ==
  /\ \E obj \in LogConfigs : InitManager(obj, FALSE)
  /\ disk = NoCert

NextLogs ==
  \/ Start(hA)
  \/ Stop(hA)
  \/ \E pid \in 1..MaxProcs : ChildExit(pid, 0)
  \/ \E pid \in 1..MaxProcs, stream \in LogStreams, line \in LogLines :
       ChildOutput(pid, stream, line)
  \/ \E limit \in TailLimits : tail(hAU, limit)

SpecLogs == InitLogs /\ [][NextLogs]_vars

(***************************************************************************)
(* Shutdown: the handlers of SIGINT and SIGTERM                            *)
(***************************************************************************)
\* for (const app of manager.listApps()) { try { manager.stop(app.host) } catch {} }
RECURSIVE stopAll(_, _)
stopAll(m, order) ==
  IF order = <<>> THEN m
  ELSE stopAll(stop(m, m.apps[Head(order)].host).m, Tail(order))

\* httpSrv.close(); httpsSrv.close(); the loop over listApps(); process.exit(0)
Shutdown(signal) ==
  /\ LET g1 == [gw EXCEPT !.http = "closed", !.steps = Append(@, "close http")]
         g2 == [g1 EXCEPT !.https = "closed", !.steps = Append(@, "close https")]
         m == stopAll(Mgr, appOrder)
         g3 == [g2 EXCEPT !.steps = Append(@, "stop children")]
         g4 == [g3 EXCEPT !.exit = <<0>>, !.steps = Append(@, "exit")]
     IN /\ Commit(Returns(m, "exit"))
        /\ gw' = g4
        /\ ret' = [InitRet EXCEPT !.op = signal, !.res = "exit"]
  /\ UNCHANGED <<configPath, file, tmp, disk, stopRequested, hostMap, secureContextCache,
                 issuing, writer, reqVars>>

(***************************************************************************)
(* Specification of the shutdown: the supervisor of one app, until a       *)
(* signal ends the process.                                                *)
(***************************************************************************)
Signals == {"SIGINT", "SIGTERM"}

NextShutdown ==
  \/ \E signal \in Signals : Shutdown(signal)
  \/ \E app \in SupTemplates : AddApp(app)
  \/ RemoveApp(hA)
  \/ Start(hA)
  \/ Stop(hA)
  \/ Restart(hA)
  \/ \E pid \in 1..MaxProcs, code \in ExitCodes : ChildExit(pid, code)
  \/ RestartTimer(hA)

SpecShutdown == Init /\ [][NextShutdown]_vars

(***************************************************************************)
(* Specification of the listeners: the gateway starts while another        *)
(* process holds none, one or both of its ports, and keeps them.           *)
(***************************************************************************)
\* the servers as https.createServer and http.createServer leave them
Created(busy) ==
  [Listening EXCEPT !.http = "created", !.https = "created", !.busy = busy,
                    !.binds = [s \in Servers |-> 0]]

ListenConfigs == { [apps |-> <<App(hA, 3000, TRUE)>>] }

InitListen ==
  /\ \E obj \in ListenConfigs, busy \in SUBSET Servers :
       InitStarted(loadConfig(obj), loadOrder(obj.apps, <<>>),
                   rebuildHostMap(loadOrder(obj.apps, <<>>), loadConfig(obj), EmptyMap),
                   FALSE, startServers(Created(busy)).g)
  /\ disk = NoCert

NextListen ==
  \/ \E s \in Servers : ListenError(s)
  \/ RetryStartServers
  \/ \E signal \in Signals : Shutdown(signal)
  \/ GwStart(hA)
  \/ GwStop(hA)
  \/ \E pid \in 1..MaxProcs : GwChildExit(pid, 0)
  \/ \E name \in SniNames : TlsConnect(name)
  \/ \E c \in SniConns : TlsClose(c)

\* the timers and the events of the listeners fire
SpecListen ==
  /\ InitListen
  /\ [][NextListen]_vars
  /\ WF_vars(\E s \in Servers : ListenError(s))
  /\ WF_vars(RetryStartServers)

(***************************************************************************)
(* Specification of the response rewriting: one app with an upstream       *)
(* object, requests with several Host headers, upstream responses with     *)
(* redirects and cookies.                                                  *)
(***************************************************************************)
hApp == <<"app", "example", "com">>
hAppU == <<"App", "example", "com">>
hBack == <<"backend", "internal">>
hOther == <<"other", "example", "org">>
wApp == ReqApp(hApp, 0, FALSE, FALSE, FALSE,
               <<[protocol |-> "http", host |-> hBack, port |-> 8080,
                  rejectUnauthorized |-> "undefined"]>>, FALSE)
RewriteConfigs == { [apps |-> <<wApp>>] }
RewriteHeaders == { <<[name |-> hApp, port |-> 4443]>>, <<[name |-> hApp, port |-> 0]>>,
                    <<[name |-> hApp, port |-> 443]>>, <<[name |-> hAppU, port |-> 4443]>> }
Callbacks == { NoFile, <<Url("https", hApp, 0, "/next", NoFile, "")>>,
               <<Url("https", hOther, 0, "/next", NoFile, "")>> }
\* scheme, host and port of the upstream Location headers
Origins == { <<"", <<>>, 0>>, <<"http", hBack, 8080>>, <<"http", ip4Loopback, 3000>>,
             <<"http", <<"LOCALHOST">>, 3000>>, <<"http", <<"[::1]">>, 3000>>,
             <<"https", hOther, 0>> }
Locations ==
  {NoFile} \cup { <<Url(o[1], o[2], o[3], "/done", cb, hash)>> :
                    o \in Origins, cb \in Callbacks, hash \in {"", "#top"} }
sid == [name |-> "sid", value |-> "abc"]
CookieAttrs == { [name |-> "Domain", value |-> "backend.internal"],
                 [name |-> "domain", value |-> "internal"],
                 [name |-> "DOMAIN", value |-> "backend.internal"],
                 [name |-> "Path", value |-> "/"],
                 [name |-> "HttpOnly", value |-> ""] }
\* Set-Cookie headers: no cookie, or one or two cookies with up to two attributes
OneCookie == { <<sid>> } \cup { <<sid, a>> : a \in CookieAttrs }
                \cup { <<sid, a, b>> : a \in CookieAttrs, b \in CookieAttrs }
SetCookies == { <<>> } \cup { <<c>> : c \in OneCookie }
                \cup { <<<<sid, a>>, <<sid, b>>>> : a \in CookieAttrs, b \in CookieAttrs }
LocalPorts == { 443, 4443 }

InitRewrite ==
  /\ \E obj \in RewriteConfigs : InitManager(obj, FALSE)
  /\ disk = NoCert

NextRewrite ==
  \/ \E header \in RewriteHeaders : HttpRequest(header)
  \/ \E loc \in Locations, localPort \in LocalPorts : ProxyRes(loc, <<>>, localPort)
  \/ \E sc \in SetCookies : ProxyRes(NoFile, sc, 443)
  \/ RewriteAgain

SpecRewrite == InitRewrite /\ [][NextRewrite]_vars

(***************************************************************************)
(* Properties of the supervisor                                            *)
(***************************************************************************)
\* runtime(host).running of AppManager.runtime
running(key) == Has(children, key)

\* C1: after stop(host) has been called, no automatic restart of that host
\* (a restart timer that spawns a child) occurs until an explicit start.
C1_ManualStopIsolation ==
  \A k \in AllKeys :
    ~(ret.op = "restartTimer" /\ ret.host = k /\ ret.res = "started"
      /\ k \in stopRequested)

\* C2: when a child exits, a restart is scheduled iff the stop was not manual,
\* autoRestart is not false, the app is not disabled and the code is not 0,
\* autoRestart and disabled being the configured values at the time of exit.
C2_RestartIffCurrentConfig ==
  (ret.op = "exit" /\ Has(apps, ret.host)) =>
    ((ret.res = "restart scheduled")
       <=> shouldRestart(ret.manual, apps[ret.host], ret.code))

\* another app with a running child has the same port as the app of key
PortTaken(key) ==
  \E b \in DOMAIN apps \ {key} :
    /\ running(b)
    /\ apps[b].port # 0
    /\ apps[b].port = apps[key].port

\* C3: no two apps that both have a running child share the same port.
C3_RunningPortsDisjoint ==
  \A k \in DOMAIN apps : running(k) => ~PortTaken(k)

\* C4: start(A) throws 'port conflict' and spawns nothing whenever another
\* app with the same port has a running child, and is not refused for the
\* port once no such app is left.
C4_PortConflictDetected ==
  (ret.op = "start" /\ Has(apps, ret.host) /\ ret.res # "already") =>
    /\ PortTaken(ret.host) => (ret.threw /\ ret.res = "port conflict")
    /\ (ret.res = "port conflict") => PortTaken(ret.host)

\* C5: per host, an app-start is never emitted before the app-exit of the
\* previous child: two app-start events always have an app-exit in between.
C5_StartAfterExit ==
  \A k \in AllKeys : evHist[k] # <<"app-start", "app-start">>

\* C6: restart(host) does not spawn the replacement child in the step that
\* stops the running child; the start comes later, after a delay.
C6_RestartIsDelayed ==
  [][(ret'.op = "restart" /\ Has(children, ret'.host))
       => ~Has(children', ret'.host)]_vars

(***************************************************************************)
(* Properties of the configuration                                         *)
(***************************************************************************)
\* C7: once every save started by the mutations has finished, the apps list
\* of the configuration file equals the in-memory app map.
C7_PersistedEqualsMemory ==
  (saves = <<>>) => (file = apps)

HostsUnique(a) ==
  \A k1, k2 \in DOMAIN a : k1 # k2 => Lower(a[k1].host) # Lower(a[k2].host)

\* C8: no two configured apps have hosts equal after lowercasing; addApp of
\* an already configured lowercased host is rejected with 'host already
\* exists'; no operation changes the host of an existing app.
C8_HostIsUniqueAndImmutable ==
  [][/\ HostsUnique(apps')
     /\ \A k \in (DOMAIN apps) \cap (DOMAIN apps') : apps'[k].host = apps[k].host
     /\ (ret'.op = "addApp" /\ Has(apps, ret'.host))
          => (ret'.threw /\ ret'.res = "host already exists" /\ apps' = apps)
    ]_vars

(***************************************************************************)
(* Properties of the combined certificate                                  *)
(***************************************************************************)
\* the SAN set of the combined record on disk
diskSans == IF disk.crt = NoFile THEN {} ELSE disk.crt[1].sans

\* '*.' followed by the last two labels of n
wildcardOf(n) == <<"*">> \o SubSeq(n, Len(n) - 1, Len(n))

\* n has at least two labels and is not 'localhost'
hasBase(n) == Len(n) >= 2 /\ n # <<"localhost">>

\* C9: after ensureCert(h) returns for a local-like h, the SAN set on disk
\* contains h and, if h has at least 2 labels and is not 'localhost', the
\* wildcard of the last two labels of h.
C9_SanCoversHost ==
  (ret.op = "ensureCert" /\ isLocalDomainName(ret.host)) =>
    /\ ret.host \in diskSans
    /\ hasBase(ret.host) => wildcardOf(ret.host) \in diskSans

\* the set S of the specification: h, every local-like configured host and
\* altName, and the wildcards of their last two labels
targetS(h) ==
  LET names == {h}
         \cup {Lower(apps[k].host) : k \in {x \in DOMAIN apps : isLocalDomainName(apps[x].host)}}
         \cup UNION {{Lower(alt) : alt \in {y \in apps[k].altNames : isLocalDomainName(y)}}
                      : k \in DOMAIN apps}
  IN names \cup {wildcardOf(n) : n \in {x \in names : hasBase(x)}}

\* C10: after ensureCert(h) returns for a local-like h, the SAN set on disk
\* is a superset of S, so a record is reused only if it covers S.
C10_SanSupersetOfS ==
  (ret.op = "ensureCert" /\ isLocalDomainName(ret.host)) =>
    targetS(ret.host) \subseteq diskSans

(***************************************************************************)
(* Properties of the certificate store                                     *)
(***************************************************************************)
\* an ensureCert call has returned; ret.prev is the combined certificate it
\* found on disk
ensureCertReturned ==
  \/ ret.op = "ensureCert"
  \/ ret.op = "getSecureContext" /\ ret.res = "miss"

validates(c, h) ==
  \/ \E s \in c.sans : Lower(s) = h
  \/ \E s \in c.sans : /\ Len(s) >= 2 /\ s[1] = "*"
                       /\ Len(h) = Len(s)
                       /\ Tail(Lower(s)) = Tail(h)
  \/ Lower(c.cn) = h

\* C12: every context a successful getSecureContext(h) returns for a
\* configured host h, from ensureCert or from the cache, carries a
\* certificate that validates against h.
C12_CacheConsistency ==
  (ret.op = "getSecureContext" /\ ret.res \in {"hit", "miss"})
    => validates(ret.cert[1], ret.host)

(***************************************************************************)
(* Properties of the certificate writes                                    *)
(***************************************************************************)
\* C13: at every moment, for the combined record and for the per-host
\* records, a certificate file on disk is accompanied by the key file that
\* matches it.
C13_CertHasMatchingKey ==
  /\ disk.crt # NoFile => disk.key = disk.crt
  /\ \A h \in PublicKeys : disk.hostCrt[h] # NoFile => disk.hostKey[h] = disk.hostCrt[h]

\* C14: ensureCert calls of one hostname are serialized: at most one
\* issuance is in progress per hostname at any time.
C14_IssuanceSerialized ==
  \A h \in PublicKeys : Len(issuing[h]) <= 1

(***************************************************************************)
(* Properties of the proxy engine                                          *)
(***************************************************************************)
\* the last request went through waitHealthy of an app with healthUrl
waited == out.kind = "http" /\ out.app # NoFile /\ out.probes > 0

\* C15: a request to an app with healthUrl whose health endpoint never
\* returned a 2xx/3xx status during the wait is answered 502 within 15 s,
\* and is neither forwarded upstream nor served from staticDir.
C15_HealthGate ==
  (waited /\ out.app[1].healthUrl /\ ~out.sawOk)
    => /\ out.status = 502
       /\ out.elapsed <= HealthTimeoutMs
       /\ out.served = "none"

\* C16: a request whose Host matches an app with a start command, while the
\* supervisor has no running child for that app, is answered 503 without a
\* health probe, a static file read or proxying.
C16_NotRunningIs503 ==
  (out.kind = "http" /\ out.app # NoFile /\ out.app[1].start /\ ~out.running)
    => /\ out.status = 503
       /\ out.probes = 0
       /\ out.served = "none"

\* C19: for every configured app with host H and every request whose Host
\* header X has lower(X without port) = lower(H), routing selects that app.
C19_RoutingSelectsHostsApp ==
  out.kind = "http" =>
    \A i \in DOMAIN out.cfg : out.app = <<out.cfg[i]>>

\* C20: for the same Host header and the same configuration, an HTTP request
\* and a WebSocket upgrade select the same app, and a proxied request and the
\* upgrade have the same target (protocol, host, port), the same Host-header
\* policy (changeOrigin, headers) and the same TLS verification (secure).
C20_WsParity ==
  (out.kind = "http" /\ wsOut.kind = "ws" /\ out.header = wsOut.header
     /\ out.cfg = wsOut.cfg)
    => /\ out.app = wsOut.app
       /\ out.served = "proxied" => out.opts = wsOut.opts

C20_Witness ==
  /\ out.kind = "http" /\ wsOut.kind = "ws"
  /\ out.header = wsOut.header /\ out.cfg = wsOut.cfg
  /\ out.served = "proxied" /\ wsOut.served = "proxied"
  /\ out.opts[1].target[1] = "https"
  /\ out.opts[1].secure = "false"
  /\ out.opts[1].headers # NoFile

C18_DelaysNonDecreasing ==
  \A k \in AllKeys :
    LET last == delayHist[k].last IN
    /\ \A i \in DOMAIN last : last[i] <= 30000
    /\ Len(last) = 2 => last[1] <= last[2]

C18_Witness ==
  /\ ret.op = "exit" /\ ret.res = "restart scheduled"
  /\ delayHist[hA].last = <<30000, 30000>>

(***************************************************************************)
(* Properties of the certificate fallback and of the response rewriting    *)
(***************************************************************************)
\* C21: when the ACME issuance of a public host fails, ensureCert returns a
\* usable certificate (its key loads with it) whose CN is the hostname and
\* whose only SAN is the hostname.
C21_AcmeFallback ==
  (ret.op = "getSecureContext" /\ ret.via = "fallback")
    => /\ ret.cert # NoFile
       /\ ret.key = ret.cert
       /\ ret.cert[1] = [cn |-> ret.host, sans |-> {ret.host}]

\* the host that a Location of the response names: the upstream host for a
\* relative one
namedHost(l) == IF l.scheme = "" THEN resp.upstreamHost ELSE Lower(l.host)

\* the names of the loopback interface as they are written in a URL
Loopback == { ip4Loopback, <<"localhost">>, <<"[::1]">> }

\* the callback parameter b is the callback a, but for an added port
sameCallback(a, b) ==
  IF a = NoFile THEN b = NoFile
  ELSE /\ b # NoFile
       /\ b[1].scheme = a[1].scheme
       /\ b[1].host = Lower(a[1].host)
       /\ b[1].path = a[1].path

\* C22: a Location whose host is the upstream host or a loopback name is
\* rewritten to scheme https and the authority of the Host header, with path,
\* query and hash kept; any other Location keeps scheme, host and path; the
\* callback parameter changes by its port at most.
C22_LocationRewrite ==
  (resp.kind = "proxyRes" /\ resp.passes = 1 /\ resp.upstreamLocation # NoFile)
    => LET l == resp.upstreamLocation[1]
           n == resp.location[1]
       IN /\ n.path = l.path
          /\ n.hash = l.hash
          /\ sameCallback(l.cb, n.cb)
          /\ IF namedHost(l) = resp.upstreamHost \/ namedHost(l) \in Loopback
               THEN /\ n.scheme = "https"
                    /\ n.host = resp.header[1].name
                    /\ n.port = resp.header[1].port
               ELSE /\ n.scheme = l.scheme
                    /\ n.host = namedHost(l)

\* C23: rewriting a rewritten Location for the same request gives the same
\* Location.
C23_RewriteIdempotent ==
  (resp.kind = "proxyRes" /\ resp.passes = 2) => resp.location = resp.first

\* C24: no Set-Cookie entry of a proxied response has a Domain attribute, in
\* any letter case, and every other attribute is kept in its place.
C24_NoCookieDomain ==
  resp.kind = "proxyRes" =>
    /\ \A i \in DOMAIN resp.cookies : \A j \in DOMAIN resp.cookies[i] :
         LowerLabel(resp.cookies[i][j].name) # "domain"
    /\ Len(resp.cookies) = Len(resp.upstreamCookies)
    /\ \A i \in DOMAIN resp.cookies :
         resp.cookies[i] =
           SelectSeq(resp.upstreamCookies[i], LAMBDA a : LowerLabel(a.name) # "domain")

(***************************************************************************)
(* Properties of the tracking of child processes                           *)
(***************************************************************************)
\* the child processes that the supervisor has not killed
unkilled == { p \in DOMAIN procs : ~procs[p].killed }

\* C28: a child that is alive and was not killed by the supervisor is the
\* child that the supervisor tracks for its host, so that the host is
\* reported as running, and no host has two such children.
C28_LiveChildIsTracked ==
  /\ \A p \in unkilled : Has(children, procs[p].key) /\ children[procs[p].key] = p
  /\ \A p \in unkilled, q \in unkilled : procs[p].key = procs[q].key => p = q

\* C27: the manual-stop flag of a host is consumed by the exit of a child
\* that stop killed, and by no exit of a child that the supervisor did
\* not kill.
C27_FlagConsumedByKilledChild ==
  [][\A p \in DOMAIN procs :
       (p \notin DOMAIN procs' /\ procs[p].key \in manualStops)
         => /\ procs[p].key \notin manualStops'
            /\ procs[p].killed]_vars

(***************************************************************************)
(* Properties of the shutdown                                              *)
(***************************************************************************)
\* C25: when the process has exited on a signal, its exit code is 0, both
\* listeners were closed before the children were stopped, and every child
\* that the supervisor started and that has not exited has been killed.
C25_ShutdownOrder ==
  gw.exit # NoFile =>
    /\ gw.exit = <<0>>
    /\ gw.http = "closed" /\ gw.https = "closed"
    /\ gw.steps = <<"close http", "close https", "stop children", "exit">>
    /\ \A p \in DOMAIN procs : procs[p].killed

(***************************************************************************)
(* Properties of the TLS context cache                                     *)
(***************************************************************************)
\* C26: the TLS context cache never holds more than MAX_CERT_CACHE_SIZE
\* entries.
C26_CacheBounded ==
  Cardinality(DOMAIN secureContextCache) <= MAX_CERT_CACHE_SIZE

(***************************************************************************)
(* Properties of the removal of an app                                     *)
(***************************************************************************)
\* C29: a host that is not configured has no tracked child and no live
\* child that the supervisor has not killed, and no step in which the host
\* stays unconfigured spawns a child for it, the callback of a pending
\* restart timer included.
C29_RemovedHostHasNoChild ==
  /\ [](\A k \in SupKeys :
          ~Has(apps, k) => /\ ~Has(children, k)
                           /\ \A p \in unkilled : procs[p].key # k)
  /\ [][\A k \in SupKeys :
          (~Has(apps, k) /\ ~Has(apps', k))
            => \A p \in DOMAIN procs' : procs'[p].key = k => p \in DOMAIN procs]_vars

(***************************************************************************)
(* Properties of the rejected mutations                                    *)
(***************************************************************************)
\* the operations of the control plane that change the configuration or
\* the children
Mutations == {"addApp", "updateApp", "removeApp", "start", "stop", "restart",
              "enable", "disable"}

\* C30: a mutation of the control plane that throws leaves the app map, the
\* host router, the configuration file, the saves in flight and the
\* children as they were before the call.
C30_ErrorLeavesStateUnchanged ==
  [][(ret'.op \in Mutations /\ ret'.threw)
       => /\ apps' = apps
          /\ hostMap' = hostMap
          /\ file' = file /\ saves' = saves
          /\ children' = children /\ procs' = procs]_vars

(***************************************************************************)
(* Properties of the health probers                                        *)
(***************************************************************************)
\* C31: every configured app with a healthUrl has exactly one live
\* periodic prober, and a host that is not configured or whose app has no
\* healthUrl has none.
C31_OneProberPerHealthApp ==
  \A k \in SupKeys :
    IF Has(apps, k) /\ hasHealthUrl(apps[k])
      THEN Live(health, k) = 1 /\ k \in health.intervals
      ELSE Live(health, k) = 0 /\ k \notin health.intervals

\* C32: no response of a probe whose prober was cleared is recorded or
\* emitted, and a host that is not configured has no health state.
C32_NoResultAfterCancel ==
  /\ ret.op = "app-health" => ret.res = "live"
  /\ \A k \in SupKeys : ~Has(apps, k) => ~Has(health.state, k)

(***************************************************************************)
(* Properties of the host router and of disabled apps                      *)
(***************************************************************************)
\* C33: the keys of the host map are the lowercased hosts of the configured
\* apps, and every configured app is the value of its lowercased host.
C33_HostMapMirrorsApps ==
  /\ DOMAIN hostMap = {Lower(apps[k].host) : k \in DOMAIN apps}
  /\ \A k \in DOMAIN apps : hostMap[Lower(apps[k].host)] = apps[k]

\* the step is a call of start for a configured app whose disabled flag is
\* true
startOfDisabled ==
  /\ ret'.op = "start"
  /\ Has(apps, ret'.host)
  /\ apps[ret'.host].disabled

\* the call of start has changed neither the children nor the app, and the
\* host map holds the app under its host
refusedAndRouted ==
  /\ ret'.threw
  /\ children' = children /\ procs' = procs
  /\ apps' = apps
  /\ Has(hostMap', ret'.host) /\ hostMap'[ret'.host] = apps[ret'.host]

\* C34 as stated: start of an app whose disabled flag is true throws
\* 'app disabled', spawns no child, and the router still maps the host to
\* the app.
C34_DisabledStartStated ==
  [][startOfDisabled => (refusedAndRouted /\ ret'.res = "app disabled")]_vars

\* C34: start of an app whose disabled flag is true throws, 'app disabled'
\* when the app has a start command and 'start command missing' when it
\* has none, spawns no child, and the router still maps the host to the
\* app.
C34_DisabledStartRefused ==
  [][startOfDisabled
       => /\ refusedAndRouted
          /\ ret'.res = IF apps[ret'.host].start THEN "app disabled"
                                                 ELSE "start command missing"]_vars

C34_Witness ==
  /\ ret.op = "start" /\ ret.threw /\ ret.res = "app disabled"
  /\ Has(hostMap, ret.host) /\ hostMap[ret.host].disabled

\* C35: no configured app whose disabled flag is true has a tracked child
\* or a live child that the supervisor has not killed.
C35_DisabledHasNoChild ==
  \A k \in DOMAIN apps :
    apps[k].disabled => /\ ~Has(children, k)
                        /\ \A p \in unkilled : procs[p].key # k

(***************************************************************************)
(* Properties of the stored certificate records                            *)
(***************************************************************************)
\* getSecureContext has taken the per-host record from the disk, without
\* an ACME order and without the self-signed fallback
reusedHostRecord ==
  /\ ret.op = "getSecureContext" /\ ret.res = "miss" /\ ret.via = ""
  /\ ~isLocalDomainName(ret.host)

\* C36: a per-host record of a public host that ensureCert reuses has at
\* least 10 days of validity left; for a record closer to its expiry an
\* ACME order is started instead.
C36_ReuseOnlyIfValid ==
  (reusedHostRecord /\ "days" \in DOMAIN ret.cert[1])
    => ret.cert[1].days >= RenewDays

\* C37: ensureCert never returns a certificate that does not parse, for
\* the combined record and for a per-host record, with or without a
\* failure of the ACME order.
C37_UnparsableNeverReturned ==
  (ret.op \in {"ensureCert", "getSecureContext", "selfSigned"} /\ ret.cert # NoFile)
    => parses(ret.cert[1])

(***************************************************************************)
(* Properties of the connections and of the listeners                      *)
(***************************************************************************)
\* C38: a connection whose server name is not a configured host has the
\* default context, and every request that arrives on it is answered 502
\* and neither proxied nor served from a directory, whatever its Host
\* header.
C38_UnknownSniGets502 ==
  /\ \A c \in gw.conns : c.context = "default"
  /\ (ret.op = "request" /\ ret.via = "default")
       => (req = NoFile /\ out.status = 502 /\ out.served = "none")

\* C39: when a port of the listeners stays in use, the bind attempts come
\* to an end and the failure ends the process: the loop of close and retry
\* does not go on forever, and it does not end with the process alive.
C39_BindFailureIsFatal ==
  (gw.busy # {}) ~> (gw.exit # NoFile)

(***************************************************************************)
(* Properties of the log buffers                                           *)
(***************************************************************************)
\* C40: the log buffer of a key holds at most maxLogs entries, and they
\* are the entries captured last for the key, in the order of their
\* arrival; tail returns the last entries of the buffer.
C40_BufferHoldsLatest ==
  /\ \A k \in DOMAIN logBuffers :
       /\ Len(logBuffers[k]) <= maxLogs
       /\ logBuffers[k] = lastOf(captured[k], maxLogs)
  /\ \A k \in AllKeys : ~Has(logBuffers, k) => captured[k] = <<>>
  /\ ret.op = "tail"
       => ret.cert[1] = lastOf(captured[ret.host], IF ret.code < maxLogs THEN ret.code ELSE maxLogs)

\* more chunks than maxLogs have arrived for a key, and the buffer holds
\* maxLogs entries without the oldest one
C40_Witness ==
  \E k \in DOMAIN logBuffers :
    /\ Len(captured[k]) > maxLogs
    /\ Len(logBuffers[k]) = maxLogs
    /\ Head(logBuffers[k]) # Head(captured[k])
    /\ ret.op = "app-log"

====
